---- MODULE Spec2Model ----
(***************************************************************************)
(* fastmail-tui: the secret generator (services/password_generator.py)     *)
(* and the mailbox ordering (models/mailbox.py) as state machines.         *)
(*                                                                         *)
(* A Python str is a sequence of one-character strings, so that indexing,  *)
(* filtering, joining and splitting are what the code does to them.        *)
(***************************************************************************)
EXTENDS Integers, Sequences, FiniteSets, TLC

VARIABLES
  op,               \* the operation called, or the component in use
  done,             \* whether the call has returned
  entropy,          \* what the call's draws from secrets will be
  options,          \* generate_password: the PasswordOptions in effect
  stripped,         \* generate_password: the local chars after line 50 (ambiguous removed)
  chars,            \* generate_password: the local chars at line 56 (the alphabet drawn from)
  password,         \* the string handed to password_strength, or returned by a generator
  num_words,        \* generate_memorable_password: argument
  separator,        \* generate_memorable_password: argument
  selected,         \* generate_memorable_password: the local list selected at line 90
  report,           \* password_strength: the dict returned (<<>> before any rating)
  mailboxes,        \* sort_mailboxes: the argument list
  result,           \* sort_mailboxes: the list returned
  all_emails,       \* SearchModal._all_emails
  filtered,         \* SearchModal._filtered
  mounted,          \* SearchModal: on_mount has run
  table,            \* SearchModal: the row keys of the results table, in order
  typed,            \* SearchModal: the value of the last Input.Changed event, if any
  scored,           \* SearchModal: the calls of _calculate_score by the last handler
  config,           \* the Config handed to save_config
  config_file,      \* the file at config_path: whether it exists, and the YAML mapping in it
  saved,            \* save_config(config, config_path) has returned
  loaded,           \* what the last load_config(config_path) returned, if any
  load_after_save,  \* the last load_config was called after a save_config
  session,          \* FastmailClient._session is not None
  mailboxes_cache,  \* FastmailClient._mailboxes_cache: the values, in the order of insertion
  server,           \* the mailboxes the server holds, as MailboxGet returns them
  fetches,          \* the get_mailboxes calls awaiting the executor, each with the server's answer
  outcome,          \* what the last step of the client did
  tree_arg,         \* MailboxTree.update_mailboxes: the argument mailboxes
  tree_mailboxes,   \* MailboxTree._mailboxes: the mailboxes, by id
  tree_nodes,       \* MailboxTree._nodes: the nodes made, each with the node it hangs under
  tree_next,        \* update_mailboxes: the place of the loop of line 89 in mailboxes
  tree_stack,       \* the frames of _add_mailbox_node, the innermost last
  tree_status,      \* update_mailboxes: not called, running, returned, or the error raised
  current_mailbox,  \* FastmailTUI._current_mailbox
  app_emails,       \* FastmailTUI._emails: the mailbox they were fetched for, if any
  email_list,       \* the EmailList: the mailbox its emails were fetched for, and the one whose name and total it shows
  pump,             \* the handler the application's message pump is running, and where it awaits
  timer,            \* the _background_refresh the interval timer is running, and where it awaits
  timer_on,         \* set_interval has been called
  app_mounted,      \* on_mount has returned
  current_screen,   \* FastmailTUI._current_screen
  screen_shown,     \* the screen on top of the screen stack
  preview_shown,    \* the EmailPreview shows an email
  last_action,      \* the handler that returned last, and the _current_screen it was called under
  listed,           \* EmailList._emails
  selected_ids,     \* EmailList._selected_ids
  cursor_row,       \* the cursor row of the DataTable
  list_last,        \* the operation of the EmailList that returned last, and the selection it was called under
  token_input,      \* the value of the Input #input-fastmail-token
  claude_input,     \* the value of the Input #input-claude-key
  keyring,          \* the passwords the keyring holds, by username
  error_message,    \* the text of #error-message, if any has been shown
  dismissed,        \* the result the screen was dismissed with, if it was
  setup_last,       \* whether the last step was _save_credentials, and the set_password calls it made
  masked_states,    \* the state of each masked email on the server, by id
  toggle_task,      \* the toggle that awaits the executor, if any, with the requests it has sent
  toggles           \* the toggles that have returned or raised, in order

\* the state of the calls of the secret generator and of sort_mailboxes
calls == <<op, done, entropy, options, stripped, chars, password, num_words,
           separator, selected, report, mailboxes, result>>

\* the state of the search modal
search == <<all_emails, filtered, mounted, table, typed, scored>>

\* the state of the configuration and its file
configuration == <<config, config_file, saved, loaded, load_after_save>>

\* the state of the FastmailClient and its server
client == <<session, mailboxes_cache, server, fetches, outcome>>

\* the state of the mailbox tree
tree == <<tree_arg, tree_mailboxes, tree_nodes, tree_next, tree_stack,
          tree_status>>

\* the state of the application
app == <<current_mailbox, app_emails, email_list, pump, timer, timer_on,
         app_mounted, current_screen, screen_shown, preview_shown, last_action>>

\* the state of the email list
list == <<listed, selected_ids, cursor_row, list_last>>

\* the state of the setup screen
setup == <<token_input, claude_input, keyring, error_message, dismissed,
           setup_last>>

\* the state of the masked email manager
manager == <<masked_states, toggle_task, toggles>>

\* what the steps of the calls of the secret generator and of sort_mailboxes leave alone
outside_calls == <<search, configuration, client, tree, app, list, setup,
                   manager>>

\* what the steps of the search modal leave alone
outside_search == <<calls, configuration, client, tree, app, list, setup,
                    manager>>

\* what the steps of the configuration and its file leave alone
outside_configuration == <<calls, search, client, tree, app, list, setup,
                           manager>>

\* what the steps of the FastmailClient and its server leave alone
outside_client == <<calls, search, configuration, tree, app, list, setup,
                    manager>>

\* what the steps of the mailbox tree leave alone
outside_tree == <<calls, search, configuration, client, app, list, setup,
                  manager>>

\* what the steps of the application leave alone
outside_app == <<calls, search, configuration, client, tree, list, setup,
                 manager>>

\* what the steps of the email list leave alone
outside_list == <<calls, search, configuration, client, tree, app, setup,
                  manager>>

\* what the steps of the setup screen leave alone
outside_setup == <<calls, search, configuration, client, tree, app, list,
                   manager>>

\* what the steps of the masked email manager leave alone
outside_manager == <<calls, search, configuration, client, tree, app, list,
                     setup>>

vars == <<calls, search, configuration, client, tree, app, list, setup,
          manager>>

----------------------------------------------------------------------------
(* Bounds of the model.                                                    *)

\* generate_password is called with length in 0..MaxLen, and with the default
MaxLen == 2
\* secrets: the first raw draw of a call is in 0..MaxSeed
MaxSeed == 99
\* secrets: successive raw draws of a call differ by 0..MaxStep
MaxStep == 3
\* generate_memorable_password is called with num_words in 1..MaxWords
MaxWords == 4
\* password_strength is handed strings of 0..MaxInputLen characters
MaxInputLen == 25
\* a pattern repeated to make such a string has 1..MaxPattern characters
MaxPattern == 3

----------------------------------------------------------------------------
(* Python's string module.                                                 *)

Range(s) == {s[i] : i \in 1..Len(s)}

ascii_lowercase ==
  <<"a", "b", "c", "d", "e", "f", "g", "h", "i", "j", "k", "l", "m", "n", "o", "p", "q",
    "r", "s", "t", "u", "v", "w", "x", "y", "z">>

ascii_uppercase ==
  <<"A", "B", "C", "D", "E", "F", "G", "H", "I", "J", "K", "L", "M", "N", "O", "P", "Q",
    "R", "S", "T", "U", "V", "W", "X", "Y", "Z">>

ascii_letters == ascii_lowercase \o ascii_uppercase

digits ==
  <<"0", "1", "2", "3", "4", "5", "6", "7", "8", "9">>

\* the grave accent (code 96), which a string literal cannot hold alone
GRAVE == "`'"

punctuation ==
  <<"!", "\"", "#", "$", "%", "&", "'", "(", ")", "*", "+", ",", "-", ".", "/", ":", ";",
    "<", "=", ">", "?", "@", "[", "\\", "]", "^", "_", GRAVE, "{", "|", "}", "~">>

\* str.islower / str.isupper / str.isdigit of one ASCII character
islower(c) == c \in Range(ascii_lowercase)

isupper(c) == c \in Range(ascii_uppercase)

isdigit(c) == c \in Range(digits)

----------------------------------------------------------------------------
(* secrets: the entropy of one call is a first raw draw and a stride; draw *)
(* number k (from 0) of the call is seed + k * step.                       *)

Entropy == [seed : 0..MaxSeed, step : 0..MaxStep]

randbelow(e, k, n) == (e.seed + k * e.step) % n

choice(e, k, seq) == seq[randbelow(e, k, Len(seq)) + 1]

----------------------------------------------------------------------------
(* services/password_generator.py: generate_password                       *)

DefaultLength == 24

\* PasswordOptions(): the dataclass defaults
PasswordOptions ==
  [length |-> DefaultLength,
   include_uppercase |-> TRUE,
   include_lowercase |-> TRUE,
   include_digits |-> TRUE,
   include_symbols |-> TRUE,
   exclude_ambiguous |-> TRUE]

\* mutant: every digit is listed as ambiguous
AMBIGUOUS_CHARS_all_digits ==
  <<"0", "O", "1", "l", "I", "|", "2", "3", "4", "5", "6", "7", "8", "9">>

AMBIGUOUS_CHARS ==
  <<"0", "O", "1", "l", "I", "|">>

\* the symbol literal of line 46
SYMBOLS ==
  <<"!", "@", "#", "$", "%", "^", "&", "*", "(", ")", "-", "_", "=", "+", "[", "]", "{",
    "}", "|", ";", ":", ",", ".", "<", ">", "?">>

\* mutant: the symbols are appended whether enabled or not
build_chars_always_symbols(o) ==
  (IF o.include_lowercase THEN ascii_lowercase ELSE <<>>)
    \o (IF o.include_uppercase THEN ascii_uppercase ELSE <<>>)
    \o (IF o.include_digits THEN digits ELSE <<>>)
    \o SYMBOLS

\* lines 37-46: the classes enabled, concatenated in the fixed order
build_chars(o) ==
  (IF o.include_lowercase THEN ascii_lowercase ELSE <<>>)
    \o (IF o.include_uppercase THEN ascii_uppercase ELSE <<>>)
    \o (IF o.include_digits THEN digits ELSE <<>>)
    \o (IF o.include_symbols THEN SYMBOLS ELSE <<>>)

\* lines 49-50: the ambiguous characters removed, order kept
remove_ambiguous(o, cs) ==
  IF o.exclude_ambiguous
    THEN SelectSeq(cs, LAMBDA c : c \notin Range(AMBIGUOUS_CHARS))
    ELSE cs

\* lines 52-53: the fallback alphabet for an empty one
fallback(cs) ==
  IF cs = <<>> THEN ascii_letters \o digits ELSE cs

\* mutant: one draw too few, range(length - 1)
draw_password_short(cs, n, e) ==
  [k \in 1..(n - 1) |-> choice(e, k - 1, cs)]

\* line 56: one independent draw per position
draw_password(cs, n, e) ==
  [k \in 1..n |-> choice(e, k - 1, cs)]

generate_password(o, e) ==
  draw_password(fallback(remove_ambiguous(o, build_chars(o))), o.length, e)

\* the lengths asked for: short ones, the default, and the tests' 20 and 32
Lengths == (0..MaxLen) \cup {DefaultLength, 20, 32}

OptionsSet ==
  [length : Lengths,
   include_uppercase : BOOLEAN,
   include_lowercase : BOOLEAN,
   include_digits : BOOLEAN,
   include_symbols : BOOLEAN,
   exclude_ambiguous : BOOLEAN]

----------------------------------------------------------------------------
(* services/password_generator.py: generate_memorable_password             *)

words == <<
  <<"a", "p", "p", "l", "e">>,
  <<"b", "a", "n", "a", "n", "a">>,
  <<"c", "h", "e", "r", "r", "y">>,
  <<"d", "r", "a", "g", "o", "n">>,
  <<"e", "a", "g", "l", "e">>,
  <<"f", "o", "r", "e", "s", "t">>,
  <<"g", "a", "l", "a", "x", "y">>,
  <<"h", "a", "r", "b", "o", "r">>,
  <<"i", "s", "l", "a", "n", "d">>,
  <<"j", "u", "n", "g", "l", "e">>,
  <<"k", "o", "a", "l", "a">>,
  <<"l", "e", "m", "o", "n">>,
  <<"m", "a", "n", "g", "o">>,
  <<"n", "e", "b", "u", "l", "a">>,
  <<"o", "c", "e", "a", "n">>,
  <<"p", "l", "a", "n", "e", "t">>,
  <<"q", "u", "a", "r", "t", "z">>,
  <<"r", "i", "v", "e", "r">>,
  <<"s", "u", "n", "s", "e", "t">>,
  <<"t", "h", "u", "n", "d", "e", "r">>,
  <<"u", "m", "b", "r", "e", "l", "l", "a">>,
  <<"v", "i", "o", "l", "e", "t">>,
  <<"w", "h", "i", "s", "p", "e", "r">>,
  <<"x", "y", "l", "o", "p", "h", "o", "n", "e">>,
  <<"y", "e", "l", "l", "o", "w">>,
  <<"z", "e", "n", "i", "t", "h">>,
  <<"a", "n", "c", "h", "o", "r">>,
  <<"b", "r", "i", "d", "g", "e">>,
  <<"c", "a", "s", "t", "l", "e">>,
  <<"d", "i", "a", "m", "o", "n", "d">>,
  <<"e", "m", "e", "r", "a", "l", "d">>,
  <<"f", "a", "l", "c", "o", "n">>,
  <<"g", "a", "r", "d", "e", "n">>,
  <<"h", "u", "n", "t", "e", "r">>,
  <<"i", "n", "d", "i", "g", "o">>,
  <<"j", "a", "s", "p", "e", "r">>,
  <<"k", "i", "w", "i">>,
  <<"l", "a", "n", "t", "e", "r", "n">>,
  <<"m", "a", "r", "b", "l", "e">>,
  <<"n", "i", "n", "j", "a">>,
  <<"o", "r", "a", "n", "g", "e">>,
  <<"p", "h", "o", "e", "n", "i", "x">>,
  <<"q", "u", "a", "n", "t", "u", "m">>,
  <<"r", "a", "i", "n", "b", "o", "w">>,
  <<"s", "i", "l", "v", "e", "r">>,
  <<"t", "i", "g", "e", "r">>,
  <<"u", "l", "t", "r", "a">>,
  <<"v", "e", "l", "v", "e", "t">>,
  <<"w", "i", "l", "l", "o", "w">>,
  <<"x", "e", "n", "o", "n">>,
  <<"y", "a", "c", "h", "t">>,
  <<"z", "e", "p", "h", "y", "r">>,
  <<"a", "l", "p", "i", "n", "e">>,
  <<"b", "l", "a", "z", "e", "r">>,
  <<"c", "o", "s", "m", "i", "c">>,
  <<"d", "e", "l", "t", "a">>,
  <<"e", "c", "h", "o">>,
  <<"f", "r", "o", "s", "t">>,
  <<"g", "l", "i", "d", "e", "r">>,
  <<"h", "o", "r", "i", "z", "o", "n">>
  >>

\* the bound of secrets.randbelow at line 88
NumberBound == 100

\* mutant: the numeral padded to two digits
str_padded(n) ==
  <<digits[(n \div 10) + 1], digits[(n % 10) + 1]>>

\* str(n) of an integer n >= 0: its decimal numeral, most significant digit first
RECURSIVE str(_)
str(n) ==
  IF n < 10 THEN <<digits[n + 1]>> ELSE str(n \div 10) \o <<digits[(n % 10) + 1]>>

\* mutant: the number is not appended
select_no_number(n, e) ==
  [k \in 1..n |-> choice(e, k - 1, words)]

\* lines 85-88: num_words drawn words, then the numeral of the drawn number
select(n, e) ==
  [k \in 1..n |-> choice(e, k - 1, words)] \o <<str(randbelow(e, n, NumberBound))>>

\* str.join: the items with sep between neighbours
RECURSIVE join(_, _)
join(sep, items) ==
  IF items = <<>> THEN <<>>
  ELSE IF Len(items) = 1 THEN items[1]
  ELSE items[1] \o sep \o join(sep, Tail(items))

generate_memorable_password(n, sep, e) == join(sep, select(n, e))

\* str.split(sep) for a non-empty sep (an empty one raises ValueError): the
\* pieces between the occurrences of sep found scanning left to right
RECURSIVE split_scan(_, _, _, _)
split_scan(s, sep, start, i) ==
  IF i + Len(sep) - 1 > Len(s)
    THEN <<SubSeq(s, start, Len(s))>>
    ELSE IF SubSeq(s, i, i + Len(sep) - 1) = sep
      THEN <<SubSeq(s, start, i - 1)>>
             \o split_scan(s, sep, i + Len(sep), i + Len(sep))
      ELSE split_scan(s, sep, start, i + 1)

split(s, sep) == split_scan(s, sep, 1, 1)

DefaultSeparator == <<"-">>

Separators ==
  {DefaultSeparator, <<>>, <<"_">>, <<" ">>, <<"-", "-">>, <<".", "-">>,
   <<"a">>, <<"1">>, <<"-", "a">>}

----------------------------------------------------------------------------
(* services/password_generator.py: password_strength                       *)

has_lower(p) == \E i \in 1..Len(p) : islower(p[i])

has_upper(p) == \E i \in 1..Len(p) : isupper(p[i])

has_digit(p) == \E i \in 1..Len(p) : isdigit(p[i])

has_symbol(p) == \E i \in 1..Len(p) : p[i] \in Range(punctuation)

\* mutant: the last threshold is length > 24
length_score_over_24(length) ==
  LET s1 == IF length >= 8 THEN 1 ELSE 0
      s2 == IF length >= 12 THEN s1 + 1 ELSE s1
      s3 == IF length >= 16 THEN s2 + 1 ELSE s2
  IN  IF length > 24 THEN s3 + 1 ELSE s3

\* lines 110-118: the points from the length
length_score(length) ==
  LET s1 == IF length >= 8 THEN 1 ELSE 0
      s2 == IF length >= 12 THEN s1 + 1 ELSE s1
      s3 == IF length >= 16 THEN s2 + 1 ELSE s2
  IN  IF length >= 24 THEN s3 + 1 ELSE s3

\* mutant: a symbol earns no point
score_no_symbol_point(p) ==
  LET s0 == length_score(Len(p))
      s1 == IF has_lower(p) THEN s0 + 1 ELSE s0
      s2 == IF has_upper(p) THEN s1 + 1 ELSE s1
  IN  IF has_digit(p) THEN s2 + 1 ELSE s2

\* lines 120-127: the points from the classes, added to the length's
score(p) ==
  LET s0 == length_score(Len(p))
      s1 == IF has_lower(p) THEN s0 + 1 ELSE s0
      s2 == IF has_upper(p) THEN s1 + 1 ELSE s1
      s3 == IF has_digit(p) THEN s2 + 1 ELSE s2
  IN  IF has_symbol(p) THEN s3 + 1 ELSE s3

\* mutant: strong from 6 up
strength_strong_from_6(s) ==
  IF s >= 6 THEN "strong"
  ELSE IF s >= 5 THEN "good"
  ELSE IF s >= 3 THEN "moderate"
  ELSE "weak"

\* lines 130-141: the rating of a score
strength(s) ==
  IF s >= 7 THEN "strong"
  ELSE IF s >= 5 THEN "good"
  ELSE IF s >= 3 THEN "moderate"
  ELSE "weak"

color(s) ==
  IF s >= 7 THEN "#00FF88"
  ELSE IF s >= 5 THEN "#00D4FF"
  ELSE IF s >= 3 THEN "#FFB800"
  ELSE "#FF4444"

password_strength(p) ==
  [score |-> score(p),
   max_score |-> 8,
   strength |-> strength(score(p)),
   color |-> color(score(p)),
   length |-> Len(p),
   has_lowercase |-> has_lower(p),
   has_uppercase |-> has_upper(p),
   has_digits |-> has_digit(p),
   has_symbols |-> has_symbol(p)]

\* the strings handed to password_strength: a pattern over characters of every
\* class (and of none), repeated to a given length; and the tests' examples
SampleChars == {"a", "Z", "5", "~", " "}

Patterns == UNION {[1..n -> SampleChars] : n \in 1..MaxPattern}

Cycle(pat, n) == [i \in 1..n |-> pat[((i - 1) % Len(pat)) + 1]]

StrengthInputs ==
  {<<>>, <<"a", "b", "c">>, Cycle(<<"a", "Z", "5", "~">>, DefaultLength)}
    \cup {Cycle(pat, n) : pat \in Patterns, n \in 0..MaxInputLen}

----------------------------------------------------------------------------
(* models/mailbox.py: Mailbox and sort_mailboxes                           *)

\* Optional[str]: None, or a string
None == <<>>

Some(x) == <<x>>

\* the characters of codes 32..126, in code order
printable ==
  <<" ", "!", "\"", "#", "$", "%", "&", "'", "(", ")", "*", "+", ",", "-", ".", "/", "0",
    "1", "2", "3", "4", "5", "6", "7", "8", "9", ":", ";", "<", "=", ">", "?", "@", "A",
    "B", "C", "D", "E", "F", "G", "H", "I", "J", "K", "L", "M", "N", "O", "P", "Q", "R",
    "S", "T", "U", "V", "W", "X", "Y", "Z", "[", "\\", "]", "^", "_", GRAVE, "a", "b", "c",
    "d", "e", "f", "g", "h", "i", "j", "k", "l", "m", "n", "o", "p", "q", "r", "s", "t",
    "u", "v", "w", "x", "y", "z", "{", "|", "}", "~">>

\* ord(c) of a printable ASCII character
ord(c) == 31 + (CHOOSE i \in 1..Len(printable) : printable[i] = c)

\* str.lower of an ASCII string
lower(s) ==
  [i \in 1..Len(s) |->
     IF isupper(s[i])
       THEN ascii_lowercase[CHOOSE k \in 1..Len(ascii_uppercase) : ascii_uppercase[k] = s[i]]
       ELSE s[i]]

\* a < b of two strings: by code, at the first place they differ
str_lt(a, b) ==
  \E k \in 1..(Len(a) + 1) :
    /\ k <= Len(b)
    /\ \A i \in 1..(k - 1) : a[i] = b[i]
    /\ k = Len(a) + 1 \/ ord(a[k]) < ord(b[k])

\* the dataclass, with the fields the ordering reads and the id
Mailbox(id, name, role, sort_order) ==
  [id |-> id, name |-> name, role |-> role, sort_order |-> sort_order]

\* mutant: junk has a rank of its own, after spam
role_order_junk_apart(r) ==
  IF r = <<"i", "n", "b", "o", "x">> THEN 0
  ELSE IF r = <<"d", "r", "a", "f", "t", "s">> THEN 1
  ELSE IF r = <<"s", "e", "n", "t">> THEN 2
  ELSE IF r = <<"a", "r", "c", "h", "i", "v", "e">> THEN 3
  ELSE IF r = <<"s", "p", "a", "m">> THEN 4
  ELSE IF r = <<"j", "u", "n", "k">> THEN 5
  ELSE IF r = <<"t", "r", "a", "s", "h">> THEN 6
  ELSE 99

\* mutant: a role not in the table gets the rank -1
role_order_unknown_first(r) ==
  IF r = <<"i", "n", "b", "o", "x">> THEN 0
  ELSE IF r = <<"d", "r", "a", "f", "t", "s">> THEN 1
  ELSE IF r = <<"s", "e", "n", "t">> THEN 2
  ELSE IF r = <<"a", "r", "c", "h", "i", "v", "e">> THEN 3
  ELSE IF r = <<"s", "p", "a", "m">> THEN 4
  ELSE IF r = <<"j", "u", "n", "k">> THEN 4
  ELSE IF r = <<"t", "r", "a", "s", "h">> THEN 5
  ELSE 0 - 1

\* lines 119-127, with the default of role_order.get at line 131
role_order(r) ==
  IF r = <<"i", "n", "b", "o", "x">> THEN 0
  ELSE IF r = <<"d", "r", "a", "f", "t", "s">> THEN 1
  ELSE IF r = <<"s", "e", "n", "t">> THEN 2
  ELSE IF r = <<"a", "r", "c", "h", "i", "v", "e">> THEN 3
  ELSE IF r = <<"s", "p", "a", "m">> THEN 4
  ELSE IF r = <<"j", "u", "n", "k">> THEN 4
  ELSE IF r = <<"t", "r", "a", "s", "h">> THEN 5
  ELSE 99

\* mutant: the role is looked up as written, not lower-cased
sort_key_role_as_written(m) ==
  IF m.role # None /\ m.role[1] # <<>>
    THEN <<0, role_order(m.role[1]), lower(m.name)>>
    ELSE <<1, m.sort_order, lower(m.name)>>

\* mutant: the name is compared as written, not lower-cased
sort_key_name_as_written(m) ==
  IF m.role # None /\ m.role[1] # <<>>
    THEN <<0, role_order(lower(m.role[1])), m.name>>
    ELSE <<1, m.sort_order, m.name>>

\* mutant: the test is "role is not None", so an empty role counts as a role
sort_key_role_not_none(m) ==
  IF m.role # None
    THEN <<0, role_order(lower(m.role[1])), lower(m.name)>>
    ELSE <<1, m.sort_order, lower(m.name)>>

\* lines 129-132
sort_key(m) ==
  IF m.role # None /\ m.role[1] # <<>>
    THEN <<0, role_order(lower(m.role[1])), lower(m.name)>>
    ELSE <<1, m.sort_order, lower(m.name)>>

\* k1 < k2 of two keys: tuples compare item by item
key_lt(k1, k2) ==
  \/ k1[1] < k2[1]
  \/ k1[1] = k2[1] /\ k1[2] < k2[2]
  \/ k1[1] = k2[1] /\ k1[2] = k2[2] /\ str_lt(k1[3], k2[3])

\* mutant: not stable, an item goes before the items of equal key
insort_before_equal(acc, x) ==
  LET n == Cardinality({i \in 1..Len(acc) : key_lt(sort_key(acc[i]), sort_key(x))})
  IN  SubSeq(acc, 1, n) \o <<x>> \o SubSeq(acc, n + 1, Len(acc))

\* sorted(items, key=sort_key): a stable sort, so each item goes after the
\* items before it whose key is not greater
insort(acc, x) ==
  LET n == Cardinality({i \in 1..Len(acc) : ~key_lt(sort_key(x), sort_key(acc[i]))})
  IN  SubSeq(acc, 1, n) \o <<x>> \o SubSeq(acc, n + 1, Len(acc))

RECURSIVE sorted(_)
sorted(items) ==
  IF items = <<>> THEN <<>>
  ELSE insort(sorted(SubSeq(items, 1, Len(items) - 1)), items[Len(items)])

\* line 134
sort_mailboxes(ms) == sorted(ms)

\* lists of up to two mailboxes are drawn from every name, role and
\* sort_order below; longer ones, of up to MaxBoxes, from MailboxPool
MaxBoxes == 3

Names == {<<"A", "r", "c", "h", "i", "v", "e", "2">>, <<"P", "r", "o", "j", "e", "c", "t", "s">>, <<"a">>, <<"B">>, <<"b">>}

Roles ==
  {None, Some(<<>>), Some(<<"i", "n", "b", "o", "x">>), Some(<<"I", "n", "b", "o", "x">>), Some(<<"d", "r", "a", "f", "t", "s">>), Some(<<"s", "e", "n", "t">>),
   Some(<<"a", "r", "c", "h", "i", "v", "e">>), Some(<<"s", "p", "a", "m">>), Some(<<"j", "u", "n", "k">>), Some(<<"t", "r", "a", "s", "h">>),
   Some(<<"c", "u", "s", "t", "o", "m">>), Some(<<"x">>)}

SortOrders == 0..2

AnyMailbox ==
  {Mailbox(<<>>, n, r, o) : n \in Names, r \in Roles, o \in SortOrders}

MailboxPool ==
  {Mailbox(<<>>, <<"a">>, Some(<<"i", "n", "b", "o", "x">>), 0),
   Mailbox(<<>>, <<"b">>, Some(<<"I", "n", "b", "o", "x">>), 0),
   Mailbox(<<>>, <<"a">>, Some(<<"d", "r", "a", "f", "t", "s">>), 0),
   Mailbox(<<>>, <<"a">>, Some(<<"s", "e", "n", "t">>), 0),
   Mailbox(<<>>, <<"a">>, Some(<<"a", "r", "c", "h", "i", "v", "e">>), 0),
   Mailbox(<<>>, <<"B">>, Some(<<"s", "p", "a", "m">>), 0),
   Mailbox(<<>>, <<"a">>, Some(<<"j", "u", "n", "k">>), 0),
   Mailbox(<<>>, <<"a">>, Some(<<"t", "r", "a", "s", "h">>), 0),
   Mailbox(<<>>, <<"a">>, Some(<<"c", "u", "s", "t", "o", "m">>), 0),
   Mailbox(<<>>, <<"B">>, Some(<<"x">>), 0),
   Mailbox(<<>>, <<"a">>, Some(<<>>), 0),
   Mailbox(<<>>, <<"P", "r", "o", "j", "e", "c", "t", "s">>, None, 2),
   Mailbox(<<>>, <<"A", "r", "c", "h", "i", "v", "e", "2">>, None, 1),
   Mailbox(<<>>, <<"B">>, None, 1),
   Mailbox(<<>>, <<"b">>, None, 1)}

\* the ids are unique: the mailbox at place i of the argument is m<i>
with_ids(ms) ==
  [i \in 1..Len(ms) |-> [ms[i] EXCEPT !.id = <<"m">> \o str(i)]]

MailboxLists ==
  {with_ids(ms) :
     ms \in {<<>>} \cup {<<a>> : a \in AnyMailbox}
              \cup {<<a, b>> : a \in AnyMailbox, b \in AnyMailbox}
              \cup UNION {[1..n -> MailboxPool] : n \in 3..MaxBoxes}}

----------------------------------------------------------------------------
(* The secret generator's operations. Each is a call of a function that    *)
(* keeps nothing between calls: a behaviour is one call, whose arguments   *)
(* and entropy the initial state fixes.                                    *)

NoEntropy == [seed |-> 0, step |-> 0]

NoReport == <<>>

\* nothing has been computed yet
NoResult ==
  /\ done = FALSE
  /\ stripped = <<>>
  /\ chars = <<>>
  /\ selected = <<>>
  /\ report = NoReport

NoMailboxes ==
  /\ mailboxes = <<>>
  /\ result = <<>>

\* no call of the secret generator
NoPassword ==
  /\ entropy = NoEntropy
  /\ options = PasswordOptions
  /\ password = <<>>
  /\ num_words = 0
  /\ separator = <<>>
  /\ NoResult

\* The components at rest.

NoCalls ==
  /\ NoPassword
  /\ NoMailboxes

\* the search modal: not in use
NoSearch ==
  /\ all_emails = <<>>
  /\ filtered = <<>>
  /\ mounted = FALSE
  /\ table = <<>>
  /\ typed = <<>>
  /\ scored = <<>>

\* the configuration and its file: not in use
NoConfig ==
  /\ config = <<>>
  /\ config_file = <<>>
  /\ saved = FALSE
  /\ loaded = <<>>
  /\ load_after_save = FALSE

\* the FastmailClient and its server: not in use
NoClient ==
  /\ session = FALSE
  /\ mailboxes_cache = <<>>
  /\ server = <<>>
  /\ fetches = <<>>
  /\ outcome = <<>>

\* the mailbox tree: not in use
NoTree ==
  /\ tree_arg = <<>>
  /\ tree_mailboxes = <<>>
  /\ tree_nodes = <<>>
  /\ tree_next = 0
  /\ tree_stack = <<>>
  /\ tree_status = ""

\* the application: not in use
NoApp ==
  /\ current_mailbox = <<>>
  /\ app_emails = <<>>
  /\ email_list = <<>>
  /\ pump = <<>>
  /\ timer = <<>>
  /\ timer_on = FALSE
  /\ app_mounted = FALSE
  /\ current_screen = ""
  /\ screen_shown = ""
  /\ preview_shown = FALSE
  /\ last_action = <<>>

\* the email list: not in use
NoList ==
  /\ listed = <<>>
  /\ selected_ids = {}
  /\ cursor_row = 0
  /\ list_last = <<>>

\* the setup screen: not in use
NoSetup ==
  /\ token_input = <<>>
  /\ claude_input = <<>>
  /\ keyring = <<>>
  /\ error_message = <<>>
  /\ dismissed = <<>>
  /\ setup_last = <<>>

\* the masked email manager: not in use
NoManager ==
  /\ masked_states = <<>>
  /\ toggle_task = <<>>
  /\ toggles = <<>>

\* nothing but the calls of the secret generator and of sort_mailboxes is in use
Only_calls ==
  /\ NoSearch
  /\ NoConfig
  /\ NoClient
  /\ NoTree
  /\ NoApp
  /\ NoList
  /\ NoSetup
  /\ NoManager

\* nothing but the search modal is in use
Only_search ==
  /\ NoCalls
  /\ NoConfig
  /\ NoClient
  /\ NoTree
  /\ NoApp
  /\ NoList
  /\ NoSetup
  /\ NoManager

\* nothing but the configuration and its file is in use
Only_configuration ==
  /\ NoCalls
  /\ NoSearch
  /\ NoClient
  /\ NoTree
  /\ NoApp
  /\ NoList
  /\ NoSetup
  /\ NoManager

\* nothing but the FastmailClient and its server is in use
Only_client ==
  /\ NoCalls
  /\ NoSearch
  /\ NoConfig
  /\ NoTree
  /\ NoApp
  /\ NoList
  /\ NoSetup
  /\ NoManager

\* nothing but the mailbox tree is in use
Only_tree ==
  /\ NoCalls
  /\ NoSearch
  /\ NoConfig
  /\ NoClient
  /\ NoApp
  /\ NoList
  /\ NoSetup
  /\ NoManager

\* nothing but the application is in use
Only_app ==
  /\ NoCalls
  /\ NoSearch
  /\ NoConfig
  /\ NoClient
  /\ NoTree
  /\ NoList
  /\ NoSetup
  /\ NoManager

\* nothing but the email list is in use
Only_list ==
  /\ NoCalls
  /\ NoSearch
  /\ NoConfig
  /\ NoClient
  /\ NoTree
  /\ NoApp
  /\ NoSetup
  /\ NoManager

\* nothing but the setup screen is in use
Only_setup ==
  /\ NoCalls
  /\ NoSearch
  /\ NoConfig
  /\ NoClient
  /\ NoTree
  /\ NoApp
  /\ NoList
  /\ NoManager

\* nothing but the masked email manager is in use
Only_manager ==
  /\ NoCalls
  /\ NoSearch
  /\ NoConfig
  /\ NoClient
  /\ NoTree
  /\ NoApp
  /\ NoList
  /\ NoSetup

\* generate_password(options)
InitGeneratePassword ==
  /\ op = "generate_password"
  /\ options \in OptionsSet
  /\ entropy \in Entropy
  /\ password = <<>>
  /\ num_words = 0
  /\ separator = <<>>

\* generate_password(): options is None
InitGeneratePasswordDefault ==
  /\ op = "generate_password_default"
  /\ options = PasswordOptions
  /\ entropy \in Entropy
  /\ password = <<>>
  /\ num_words = 0
  /\ separator = <<>>

\* generate_memorable_password(num_words, separator)
InitGenerateMemorablePassword ==
  /\ op = "generate_memorable_password"
  /\ num_words \in 1..MaxWords
  /\ separator \in Separators
  /\ entropy \in Entropy
  /\ options = PasswordOptions
  /\ password = <<>>

\* password_strength(password)
InitPasswordStrength ==
  /\ op = "password_strength"
  /\ password \in StrengthInputs
  /\ entropy = NoEntropy
  /\ options = PasswordOptions
  /\ num_words = 0
  /\ separator = <<>>

\* main.py, the generate-password command: --length, --memorable, --words
InitCommand ==
  /\ op \in {"command", "command_memorable"}
  /\ options \in {[PasswordOptions EXCEPT !.length = n] : n \in Lengths}
  /\ num_words \in 1..MaxWords
  /\ separator = DefaultSeparator
  /\ entropy \in Entropy
  /\ password = <<>>

\* masked_email_panel.py: a new login is created
InitNewLogin ==
  /\ op = "new_login"
  /\ options = [PasswordOptions EXCEPT !.length = 24]
  /\ entropy \in Entropy
  /\ password = <<>>
  /\ num_words = 0
  /\ separator = <<>>

InitPassword ==
  /\ \/ InitGeneratePassword
     \/ InitGeneratePasswordDefault
     \/ InitGenerateMemorablePassword
     \/ InitPasswordStrength
     \/ InitCommand
     \/ InitNewLogin
  /\ NoResult
  /\ NoMailboxes
  /\ Only_calls

\* generate_password(options), lines 36-58
GeneratePassword ==
  /\ op = "generate_password"
  /\ ~done
  /\ done' = TRUE
  /\ stripped' = remove_ambiguous(options, build_chars(options))
  /\ chars' = fallback(remove_ambiguous(options, build_chars(options)))
  /\ password' = generate_password(options, entropy)
  /\ UNCHANGED outside_calls
  /\ UNCHANGED <<op, entropy, options, num_words, separator, selected, report,
                 mailboxes, result>>

\* generate_password(), lines 33-58
GeneratePasswordDefault ==
  /\ op = "generate_password_default"
  /\ ~done
  /\ done' = TRUE
  /\ options' = PasswordOptions
  /\ stripped' = remove_ambiguous(PasswordOptions, build_chars(PasswordOptions))
  /\ chars' = fallback(remove_ambiguous(PasswordOptions, build_chars(PasswordOptions)))
  /\ password' = generate_password(PasswordOptions, entropy)
  /\ UNCHANGED outside_calls
  /\ UNCHANGED <<op, entropy, num_words, separator, selected, report,
                 mailboxes, result>>

\* generate_memorable_password(num_words, separator), lines 72-90
GenerateMemorablePassword ==
  /\ op = "generate_memorable_password"
  /\ ~done
  /\ done' = TRUE
  /\ selected' = select(num_words, entropy)
  /\ password' = generate_memorable_password(num_words, separator, entropy)
  /\ UNCHANGED outside_calls
  /\ UNCHANGED <<op, entropy, options, stripped, chars, num_words, separator,
                 report, mailboxes, result>>

\* password_strength(password), lines 102-153
PasswordStrength ==
  /\ op = "password_strength"
  /\ ~done
  /\ done' = TRUE
  /\ report' = password_strength(password)
  /\ UNCHANGED outside_calls
  /\ UNCHANGED <<op, entropy, options, stripped, chars, password, num_words,
                 separator, selected, mailboxes, result>>

\* main.py lines 162-164: a random password of --length, and its rating
CommandPassword ==
  /\ op = "command"
  /\ ~done
  /\ done' = TRUE
  /\ stripped' = remove_ambiguous(options, build_chars(options))
  /\ chars' = fallback(remove_ambiguous(options, build_chars(options)))
  /\ password' = generate_password(options, entropy)
  /\ report' = password_strength(generate_password(options, entropy))
  /\ UNCHANGED outside_calls
  /\ UNCHANGED <<op, entropy, options, num_words, separator, selected,
                 mailboxes, result>>

\* main.py lines 160 and 164: a memorable password of --words, and its rating
CommandMemorable ==
  /\ op = "command_memorable"
  /\ ~done
  /\ done' = TRUE
  /\ selected' = select(num_words, entropy)
  /\ password' = generate_memorable_password(num_words, separator, entropy)
  /\ report' =
       password_strength(generate_memorable_password(num_words, separator, entropy))
  /\ UNCHANGED outside_calls
  /\ UNCHANGED <<op, entropy, options, stripped, chars, num_words, separator,
                 mailboxes, result>>

\* masked_email_panel.py line 274: the new login's password; line 446: the
\* rating the credentials modal shows of it
NewLogin ==
  /\ op = "new_login"
  /\ ~done
  /\ done' = TRUE
  /\ stripped' = remove_ambiguous(options, build_chars(options))
  /\ chars' = fallback(remove_ambiguous(options, build_chars(options)))
  /\ password' = generate_password(options, entropy)
  /\ report' = password_strength(generate_password(options, entropy))
  /\ UNCHANGED outside_calls
  /\ UNCHANGED <<op, entropy, options, num_words, separator, selected,
                 mailboxes, result>>

NextPassword ==
  \/ GeneratePassword
  \/ GeneratePasswordDefault
  \/ GenerateMemorablePassword
  \/ PasswordStrength
  \/ CommandPassword
  \/ CommandMemorable
  \/ NewLogin

SpecPassword == InitPassword /\ [][NextPassword]_vars

----------------------------------------------------------------------------
(* The mailbox ordering's operation.                                       *)

\* sort_mailboxes(mailboxes)
InitMailbox ==
  /\ op = "sort_mailboxes"
  /\ mailboxes \in MailboxLists
  /\ result = <<>>
  /\ NoPassword
  /\ Only_calls

\* mutant: the argument is sorted in place, mailboxes.sort(key=sort_key)
SortMailboxes_in_place ==
  /\ op = "sort_mailboxes"
  /\ ~done
  /\ done' = TRUE
  /\ mailboxes' = sort_mailboxes(mailboxes)
  /\ result' = sort_mailboxes(mailboxes)
  /\ UNCHANGED outside_calls
  /\ UNCHANGED <<op, entropy, options, stripped, chars, password, num_words,
                 separator, selected, report>>

\* sort_mailboxes(mailboxes), lines 117-134: a new list; the argument is kept
SortMailboxes ==
  /\ op = "sort_mailboxes"
  /\ ~done
  /\ done' = TRUE
  /\ result' = sort_mailboxes(mailboxes)
  /\ UNCHANGED outside_calls
  /\ UNCHANGED <<op, entropy, options, stripped, chars, password, num_words,
                 separator, selected, report, mailboxes>>

NextMailbox == SortMailboxes

SpecMailbox == InitMailbox /\ [][NextMailbox]_vars

----------------------------------------------------------------------------
(* ui/widgets/search_modal.py: SearchModal, over models/email.py           *)

\* the bounds of the search modal's model
\* the modal is opened on the lists of 0..MaxEmailPattern emails, and on
\* two emails in turn up to the lengths around the limit
MaxEmailPattern == 2
\* the longest list has MaxOverLimit emails more than the limit
MaxOverLimit == 2

\* EmailAddress, email.py lines 27-32
EmailAddress(email, name) == [email |-> email, name |-> name]

\* EmailAddress.short_display, email.py line 44: self.name or self.email.split("@")[0]
short_display(a) ==
  IF a.name # None /\ a.name[1] # <<>> THEN a.name[1] ELSE split(a.email, <<"@">>)[1]

\* Email, the fields the search reads
Email(id, subject, preview, from_addresses) ==
  [id |-> id, subject |-> subject, preview |-> preview, from_addresses |-> from_addresses]

\* Email.from_display, email.py lines 135-139
from_display(e) ==
  IF e.from_addresses # <<>> THEN short_display(e.from_addresses[1]) ELSE <<"U", "n", "k", "n", "o", "w", "n">>

\* Email.from_email, email.py lines 142-146
from_email(e) ==
  IF e.from_addresses # <<>> THEN e.from_addresses[1].email ELSE <<>>

\* str.strip(): the whitespace at both ends is dropped
whitespace == {" ", "\t", "\n"}

RECURSIVE lstrip(_)
lstrip(s) == IF s # <<>> /\ Head(s) \in whitespace THEN lstrip(Tail(s)) ELSE s

RECURSIVE rstrip(_)
rstrip(s) ==
  IF s # <<>> /\ s[Len(s)] \in whitespace THEN rstrip(SubSeq(s, 1, Len(s) - 1)) ELSE s

strip(s) == rstrip(lstrip(s))

\* s.startswith(q)
startswith(s, q) == Len(q) <= Len(s) /\ SubSeq(s, 1, Len(q)) = q

\* q in s, of two strings
contains(s, q) ==
  \E i \in 0..(Len(s) - Len(q)) : SubSeq(s, i + 1, i + Len(q)) = q

\* s[:n], for n >= 0
take(s, n) == SubSeq(s, 1, IF n < Len(s) THEN n ELSE Len(s))

\* the number of results kept, the literal 50 of lines 82, 108 and 119
ResultLimit == 50

\* mutant: the bonus for a start replaces the bonus for a match
calculate_score_start_replaces(query, email) ==
  LET subject_lower == lower(email.subject)
      from_lower == lower(from_display(email))
      from_email_lower == lower(from_email(email))
      preview_lower == lower(email.preview)
  IN  (IF startswith(subject_lower, query) THEN 50
       ELSE IF contains(subject_lower, query) THEN 100 ELSE 0)
      + (IF startswith(from_lower, query) THEN 40
         ELSE IF contains(from_lower, query) THEN 80 ELSE 0)
      + (IF contains(from_email_lower, query) THEN 60 ELSE 0)
      + (IF contains(preview_lower, query) THEN 30 ELSE 0)

\* SearchModal._calculate_score, lines 123-159
calculate_score(query, email) ==
  LET subject_lower == lower(email.subject)
      from_lower == lower(from_display(email))
      from_email_lower == lower(from_email(email))
      preview_lower == lower(email.preview)
  IN  (IF contains(subject_lower, query)
         THEN 100 + (IF startswith(subject_lower, query) THEN 50 ELSE 0)
         ELSE 0)
      + (IF contains(from_lower, query)
           THEN 80 + (IF startswith(from_lower, query) THEN 40 ELSE 0)
           ELSE 0)
      + (IF contains(from_email_lower, query) THEN 60 ELSE 0)
      + (IF contains(preview_lower, query) THEN 30 ELSE 0)

\* the calls of _calculate_score in the loop of lines 111-114, in order
score_calls(query, emails) ==
  [i \in 1..Len(emails) |->
     [query |-> query, email |-> emails[i], score |-> calculate_score(query, emails[i])]]

\* the pairs (score, email) of the calls
pairs_of(cs) == [i \in 1..Len(cs) |-> <<cs[i].score, cs[i].email>>]

\* mutant: the emails of score 0 are kept
keep_scored_with_zero(cs) == pairs_of(cs)

\* lines 110-114: the list scored, the pairs of the emails with a score > 0
keep_scored(cs) == SelectSeq(pairs_of(cs), LAMBDA p : p[1] > 0)

\* mutant: ascending, the sort without reverse=True
first_score_smallest(S) == CHOOSE x \in S : \A y \in S : x <= y

\* the score that comes first under reverse=True, the greatest
first_score(S) == CHOOSE x \in S : \A y \in S : y <= x

\* the pairs of the scores in S: by score from the first on, the pairs of one
\* score in the order they have in the list (list.sort is stable, and with
\* reverse=True it still keeps the order of equal elements)
RECURSIVE by_score(_, _)
by_score(pairs, S) ==
  IF S = {} THEN <<>>
  ELSE SelectSeq(pairs, LAMBDA p : p[1] = first_score(S))
         \o by_score(pairs, S \ {first_score(S)})

\* scored.sort(key=lambda x: x[0], reverse=True), line 117
sort_reverse(pairs) == by_score(pairs, {pairs[i][1] : i \in 1..Len(pairs)})

\* line 119: [email for _, email in scored[:50]]
top_emails(pairs) ==
  LET top == take(pairs, ResultLimit) IN [i \in 1..Len(top) |-> top[i][2]]

\* _update_results, lines 160-187: the table is cleared and gets a row per
\* email of _filtered, keyed by the email's id
rows(emails) == [i \in 1..Len(emails) |-> emails[i].id]

\* mutant: the value is lower-cased but not stripped
query_of_not_stripped(value) == lower(value)

\* line 105: query = event.value.strip().lower()
query_of(value) == lower(strip(value))

\* the emails the modal is opened on
EmailPool ==
  {Email(<<>>, <<"I", "n", "b", "o", "x">>, <<"h", "i">>, <<EmailAddress(<<"b", "o", "b", "@", "x", ".", "i", "o">>, Some(<<"B", "o", "b">>))>>),
   Email(<<>>, <<"W", "i", "n">>, <<"o", "k">>, <<EmailAddress(<<"a", "l", "@", "x", ".", "i", "o">>, None)>>),
   Email(<<>>, <<"H", "e", "l", "l", "o">>, <<"l", "o", "g", " ", "i", "n">>, <<EmailAddress(<<"b", "o", "b", "@", "x", ".", "i", "o">>, Some(<<"B", "o", "b">>))>>),
   Email(<<>>, <<"H", "e", "l", "l", "o">>, <<"o", "k">>, <<EmailAddress(<<"i", "n", "a", "@", "x", ".", "i", "o">>, Some(<<"I", "n", "a">>))>>),
   Email(<<>>, <<"R", "e">>, <<>>, <<>>),
   Email(<<>>, <<"i", "n">>, <<"I", "N">>, <<EmailAddress(<<"i", "n", "@", "x", ".", "i", "o">>, Some(<<>>))>>)}

with_email_ids(es) ==
  [i \in 1..Len(es) |-> [es[i] EXCEPT !.id = <<"e">> \o str(i)]]

EmailLists ==
  {with_email_ids(es) :
     es \in UNION {[1..n -> EmailPool] : n \in 0..MaxEmailPattern}
              \cup {Cycle(<<a, b>>, n) :
                      a \in EmailPool, b \in EmailPool,
                      n \in (ResultLimit - 1)..(ResultLimit + MaxOverLimit)}}

\* the values typed into the search input
InputValues ==
  {<<>>, <<" ", "\t">>, <<"i", "n">>, <<" ", "I", "n", " ">>, <<"x">>, <<"u", "n">>, <<"z", "z">>}

\* SearchModal(emails), __init__ lines 68-83
InitSearch ==
  /\ op = "search"
  /\ Only_search
  /\ all_emails \in EmailLists
  /\ filtered = take(all_emails, ResultLimit)
  /\ mounted = FALSE
  /\ table = <<>>
  /\ typed = None
  /\ scored = <<>>

\* on_mount, lines 93-101
OnMount ==
  /\ op = "search"
  /\ ~mounted
  /\ mounted' = TRUE
  /\ table' = rows(filtered)
  /\ UNCHANGED <<all_emails, filtered, typed, scored>>
  /\ UNCHANGED outside_search

\* on_input_changed(event), lines 103-121
OnInputChanged ==
  /\ op = "search"
  /\ mounted
  /\ \E value \in InputValues :
       LET query == query_of(value) IN
         /\ typed' = Some(value)
         /\ IF query = <<>>
              THEN /\ filtered' = take(all_emails, ResultLimit)
                   /\ scored' = <<>>
              ELSE /\ scored' = score_calls(query, all_emails)
                   /\ filtered' = top_emails(sort_reverse(keep_scored(scored')))
         /\ table' = rows(filtered')
  /\ UNCHANGED <<all_emails, mounted>>
  /\ UNCHANGED outside_search

NextSearch ==
  \/ OnMount
  \/ OnInputChanged

SpecSearch == InitSearch /\ [][NextSearch]_vars

----------------------------------------------------------------------------
(* config.py: Config, load_config and save_config, over a YAML file        *)

\* a Config differs from the default one in at most MaxChanged fields
MaxChanged == 2

\* the values of Python the configuration holds, each with its type
V_str(s) == [type |-> "str", s |-> s, n |-> 0, b |-> FALSE, parts |-> <<>>]

V_int(n) == [type |-> "int", s |-> <<>>, n |-> n, b |-> FALSE, parts |-> <<>>]

V_bool(b) == [type |-> "bool", s |-> <<>>, n |-> 0, b |-> b, parts |-> <<>>]

V_none == [type |-> "NoneType", s |-> <<>>, n |-> 0, b |-> FALSE, parts |-> <<>>]

\* a pathlib.Path: whether it is absolute (b), and its parts under the root
V_path(absolute, parts) ==
  [type |-> "Path", s |-> <<>>, n |-> 0, b |-> absolute, parts |-> parts]

\* str(path), line 116
str_of_path(p) ==
  IF p.parts = <<>> THEN (IF p.b THEN <<"/">> ELSE <<".">>)
  ELSE (IF p.b THEN <<"/">> ELSE <<>>) \o join(<<"/">>, p.parts)

\* Path(string), line 85: the parts between the slashes, empty ones and "."
\* dropped
Path(string) ==
  V_path(string # <<>> /\ Head(string) = "/",
         SelectSeq(split(string, <<"/">>), LAMBDA part : part # <<>> /\ part # <<".">>))

\* Path.home() / ".cache" / "fastmail-tui", line 33
DefaultCachePath == V_path(TRUE, <<<<"h", "o", "m", "e">>, <<"u", "s", "e", "r">>, <<".", "c", "a", "c", "h", "e">>, <<"f", "a", "s", "t", "m", "a", "i", "l", "-", "t", "u", "i">>>>)

\* Config(), lines 9-53: the defaults of the four sections
DefaultConfig ==
  [fastmail |-> [host |-> V_str(<<"a", "p", "i", ".", "f", "a", "s", "t", "m", "a", "i", "l", ".", "c", "o", "m">>), account_id |-> V_str(<<>>)],
   claude |-> [enabled |-> V_bool(TRUE),
               model |-> V_str(<<"c", "l", "a", "u", "d", "e", "-", "s", "o", "n", "n", "e", "t", "-", "4", "-", "5">>),
               summarize_threads |-> V_bool(TRUE),
               suggest_replies |-> V_bool(TRUE),
               categorize_emails |-> V_bool(TRUE),
               max_summary_tokens |-> V_int(500)],
   cache |-> [enabled |-> V_bool(TRUE),
              max_messages |-> V_int(500),
              encrypt |-> V_bool(TRUE),
              path |-> DefaultCachePath],
   ui |-> [vim_mode |-> V_bool(TRUE),
           preview_lines |-> V_int(10),
           show_ai_panel |-> V_bool(TRUE),
           notification_sound |-> V_bool(FALSE),
           refresh_interval |-> V_int(30),
           page_size |-> V_int(50)]]

Sections == {"fastmail", "claude", "cache", "ui"}

\* YAML: a scalar is written plain or in quotes
Scalar(style, text) == [style |-> style, text |-> text]

\* the plain scalars YAML 1.1 reads as a bool, and as null
bool_true == {<<"y", "e", "s">>, <<"Y", "e", "s">>, <<"Y", "E", "S">>, <<"t", "r", "u", "e">>, <<"T", "r", "u", "e">>, <<"T", "R", "U", "E">>, <<"o", "n">>, <<"O", "n">>, <<"O", "N">>}

bool_false == {<<"n", "o">>, <<"N", "o">>, <<"N", "O">>, <<"f", "a", "l", "s", "e">>, <<"F", "a", "l", "s", "e">>, <<"F", "A", "L", "S", "E">>, <<"o", "f", "f">>, <<"O", "f", "f">>, <<"O", "F", "F">>}

null_words == {<<>>, <<"~">>, <<"n", "u", "l", "l">>, <<"N", "u", "l", "l">>, <<"N", "U", "L", "L">>}

digit_value(c) == CHOOSE k \in 0..9 : digits[k + 1] = c

\* the number a numeral of the given base denotes
RECURSIVE int_of(_, _)
int_of(text, base) ==
  IF text = <<>> THEN 0
  ELSE int_of(SubSeq(text, 1, Len(text) - 1), base) * base + digit_value(text[Len(text)])

\* the plain scalars YAML 1.1 reads as an int: a decimal numeral without a
\* leading zero, or a zero followed by octal digits
is_decimal(text) ==
  /\ text # <<>>
  /\ \A i \in 1..Len(text) : isdigit(text[i])
  /\ (Len(text) > 1 => text[1] # "0")

is_octal(text) ==
  /\ Len(text) > 1
  /\ text[1] = "0"
  /\ \A i \in 1..Len(text) : isdigit(text[i]) /\ digit_value(text[i]) < 8

\* yaml.safe_load, line 72: the value of a plain scalar
resolve(text) ==
  IF text \in null_words THEN V_none
  ELSE IF text \in bool_true THEN V_bool(TRUE)
  ELSE IF text \in bool_false THEN V_bool(FALSE)
  ELSE IF is_decimal(text) THEN V_int(int_of(text, 10))
  ELSE IF is_octal(text) THEN V_int(int_of(text, 8))
  ELSE V_str(text)

\* yaml.safe_load, line 72: the value of a scalar
construct(scalar) ==
  IF scalar.style = "plain" THEN resolve(scalar.text) ELSE V_str(scalar.text)

\* mutant: a string is always written plain
represent_never_quoted(v) ==
  IF v.type = "bool" THEN Scalar("plain", IF v.b THEN <<"t", "r", "u", "e">> ELSE <<"f", "a", "l", "s", "e">>)
  ELSE IF v.type = "int" THEN Scalar("plain", str(v.n))
  ELSE IF v.type = "NoneType" THEN Scalar("plain", <<"n", "u", "l", "l">>)
  ELSE Scalar("plain", v.s)

\* yaml.dump, line 130: the scalar of a value; a string that would be read
\* back as something else is written in quotes
represent(v) ==
  IF v.type = "bool" THEN Scalar("plain", IF v.b THEN <<"t", "r", "u", "e">> ELSE <<"f", "a", "l", "s", "e">>)
  ELSE IF v.type = "int" THEN Scalar("plain", str(v.n))
  ELSE IF v.type = "NoneType" THEN Scalar("plain", <<"n", "u", "l", "l">>)
  ELSE IF resolve(v.s).type = "str" THEN Scalar("plain", v.s)
  ELSE Scalar("single", v.s)

\* lines 99-126: the dict save_config builds, the path as a string
data_of(c) ==
  [fastmail |-> c.fastmail,
   claude |-> c.claude,
   cache |-> [c.cache EXCEPT !.path = V_str(str_of_path(c.cache.path))],
   ui |-> c.ui]

\* yaml.dump(data), line 130: the mapping written
dump(data) ==
  [sec \in DOMAIN data |-> [key \in DOMAIN data[sec] |-> represent(data[sec][key])]]

\* yaml.safe_load(f) or {}, line 72: the dict read
safe_load(document) ==
  [sec \in DOMAIN document |->
     [key \in DOMAIN document[sec] |-> construct(document[sec][key])]]

\* FastmailConfig(**data["fastmail"]) and the like: the fields given, the
\* others at their defaults
section_of(sec, given) ==
  [key \in DOMAIN DefaultConfig[sec] |->
     IF key \in DOMAIN given THEN given[key] ELSE DefaultConfig[sec][key]]

\* lines 74-91: the Config of a dict read from the file
config_of(data) ==
  [sec \in Sections |->
     IF sec \notin DOMAIN data THEN DefaultConfig[sec]
     ELSE IF sec = "cache" /\ "path" \in DOMAIN data[sec]
       THEN section_of(sec, [data[sec] EXCEPT !.path = Path(data[sec].path.s)])
       ELSE section_of(sec, data[sec])]

NoFile == [exists |-> FALSE, document |-> <<>>]

File(document) == [exists |-> TRUE, document |-> document]

NotLoaded == [returned |-> FALSE, config |-> <<>>]

Loaded(c) == [returned |-> TRUE, config |-> c]

\* mutant: a missing file is created with the defaults in it
file_after_load_created(file) ==
  IF file.exists THEN file ELSE File(dump(data_of(DefaultConfig)))

\* load_config opens the file for reading only, lines 68-72
file_after_load(file) == file

\* load_config(config_path), lines 63-91
load_config(file) ==
  IF ~file.exists THEN DefaultConfig ELSE config_of(safe_load(file.document))

\* the fields changed, and the values they get
Changes ==
  {<<"fastmail", "host", V_str(t)>> :
     t \in {<<>>, <<"6", "0">>, <<"t", "r", "u", "e">>, <<"0", "1", "0">>, <<"m", "a", "i", "l", ".", "e", "x", "a", "m", "p", "l", "e", ".", "o", "r", "g">>}}
  \cup {<<"fastmail", "account_id", V_str(t)>> : t \in {<<"u", "1", "2", "3", "4">>, <<"n", "u", "l", "l">>}}
  \cup {<<"claude", "model", V_str(t)>> : t \in {<<"O", "f", "f">>, <<"c", "l", "a", "u", "d", "e", "-", "o", "p", "u", "s">>}}
  \cup {<<"claude", key, V_bool(FALSE)>> :
          key \in {"enabled", "summarize_threads", "suggest_replies", "categorize_emails"}}
  \cup {<<"claude", "max_summary_tokens", V_int(n)>> : n \in {0, 60}}
  \cup {<<"cache", key, V_bool(FALSE)>> : key \in {"enabled", "encrypt"}}
  \cup {<<"cache", "max_messages", V_int(n)>> : n \in {0, 60}}
  \cup {<<"cache", "path", p>> : p \in {V_path(FALSE, <<>>), V_path(FALSE, <<<<"c", "a", "c", "h", "e">>>>)}}
  \cup {<<"ui", key, V_bool(FALSE)>> : key \in {"vim_mode", "show_ai_panel"}}
  \cup {<<"ui", "notification_sound", V_bool(TRUE)>>}
  \cup {<<"ui", key, V_int(n)>> :
          key \in {"preview_lines", "refresh_interval", "page_size"}, n \in {0, 60}}

RECURSIVE changed(_, _)
changed(c, chs) ==
  IF chs = <<>> THEN c
  ELSE changed([c EXCEPT ![chs[1][1]][chs[1][2]] = chs[1][3]], Tail(chs))

Configs ==
  {changed(DefaultConfig, chs) : chs \in UNION {[1..n -> Changes] : n \in 0..MaxChanged}}

\* the files that may be at config_path before: none, an empty one, one an
\* earlier run saved
OldFiles ==
  {NoFile, File(<<>>)}
    \cup {File(dump(data_of(changed(DefaultConfig, <<ch>>)))) :
            ch \in {<<"ui", "refresh_interval", V_int(60)>>,
                    <<"fastmail", "host", V_str(<<"6", "0">>)>>}}

InitConfig ==
  /\ op = "config"
  /\ Only_configuration
  /\ config \in Configs
  /\ config_file \in OldFiles
  /\ saved = FALSE
  /\ loaded = NotLoaded
  /\ load_after_save = FALSE

\* save_config(config, config_path), lines 94-130
SaveConfig ==
  /\ op = "config"
  /\ config_file' = File(dump(data_of(config)))
  /\ saved' = TRUE
  /\ UNCHANGED <<config, loaded, load_after_save>>
  /\ UNCHANGED outside_configuration

\* load_config(config_path), lines 63-91
LoadConfig ==
  /\ op = "config"
  /\ loaded' = Loaded(load_config(config_file))
  /\ config_file' = file_after_load(config_file)
  /\ load_after_save' = saved
  /\ UNCHANGED <<config, saved>>
  /\ UNCHANGED outside_configuration

NextConfig ==
  \/ SaveConfig
  \/ LoadConfig

SpecConfig == InitConfig /\ [][NextConfig]_vars

----------------------------------------------------------------------------
(* api/jmap_client.py: FastmailClient                                      *)

\* at most MaxFetches calls of get_mailboxes await the executor at a time
MaxFetches == 1

\* a mailbox as jmapc hands it over; sort_order may be None
JmapMailbox(id, name, role, sort_order) ==
  [id |-> id, name |-> name, role |-> role, sort_order |-> sort_order]

\* Mailbox.from_jmap, mailbox.py lines 100-115: sort_order or 0
from_jmap(data) ==
  Mailbox(data.id, data.name, data.role,
          IF data.sort_order = None THEN 0 ELSE data.sort_order[1])

\* self._mailboxes_cache[mailbox.id] = mailbox, line 137: a new key goes
\* last, a known key keeps its place
cache_set(cache, mailbox) ==
  IF \E i \in 1..Len(cache) : cache[i].id = mailbox.id
    THEN [i \in 1..Len(cache) |-> IF cache[i].id = mailbox.id THEN mailbox ELSE cache[i]]
    ELSE Append(cache, mailbox)

RECURSIVE cache_fill(_, _)
cache_fill(cache, jmap_mailboxes) ==
  IF jmap_mailboxes = <<>> THEN cache
  ELSE cache_fill(cache_set(cache, from_jmap(Head(jmap_mailboxes))), Tail(jmap_mailboxes))

\* mutant: the cache is not cleared before it is filled
cache_after_fetch_not_cleared(cache, jmap_mailboxes) == cache_fill(cache, jmap_mailboxes)

\* lines 133-138: the cache after a fetch
cache_after_fetch(cache, jmap_mailboxes) == cache_fill(<<>>, jmap_mailboxes)

\* get_mailbox_by_role, lines 142-147: the first mailbox of the role, or None
get_mailbox_by_role(cache, role) ==
  LET found == {i \in 1..Len(cache) :
                  /\ cache[i].role # None
                  /\ cache[i].role[1] # <<>>
                  /\ lower(cache[i].role[1]) = lower(role)}
  IN  IF found = {} THEN None
      ELSE Some(cache[CHOOSE i \in found : \A j \in found : i <= j])

\* what a step did: the operation, whether the client was connected when it
\* was called, how it ended, the requests the call has sent, the cache the
\* step found, and
\* for get_mailboxes the flag, the server's answer and the list returned
Outcome(operation, connected, status, sent, cache, force, response, value) ==
  [op |-> operation, connected |-> connected, status |-> status, sent |-> sent,
   cache_before |-> cache, force_refresh |-> force, response |-> response,
   value |-> value]

NoOutcome == Outcome("", FALSE, "", 0, <<>>, FALSE, <<>>, <<>>)

\* raise RuntimeError("Not connected")
NotConnected(operation, cache) ==
  Outcome(operation, FALSE, "RuntimeError: Not connected", 0, cache, FALSE, <<>>, <<>>)

Returned(operation, sent, cache) ==
  Outcome(operation, TRUE, "returned", sent, cache, FALSE, <<>>, <<>>)

\* the mailboxes the server may hold
ServerStates ==
  {<<>>,
   <<JmapMailbox(<<"m", "1">>, <<"I", "n", "b", "o", "x">>, Some(<<"i", "n", "b", "o", "x">>), Some(1))>>,
   <<JmapMailbox(<<"m", "2">>, <<"T", "r", "a", "s", "h">>, Some(<<"t", "r", "a", "s", "h">>), None),
     JmapMailbox(<<"m", "1">>, <<"I", "n", "b", "o", "x">>, Some(<<"i", "n", "b", "o", "x">>), Some(1)),
     JmapMailbox(<<"m", "3">>, <<"P", "r", "o", "j", "e", "c", "t", "s">>, None, None)>>,
   <<JmapMailbox(<<"m", "3">>, <<"W", "o", "r", "k">>, None, Some(2)),
     JmapMailbox(<<"m", "4">>, <<"J", "u", "n", "k">>, Some(<<"J", "u", "n", "k">>), Some(0)),
     JmapMailbox(<<"m", "5">>, <<"A", "r", "c", "h", "i", "v", "e">>, Some(<<"a", "r", "c", "h", "i", "v", "e">>), Some(0))>>}

\* the lists of email ids handed to the operations
EmailIds == {<<>>, <<<<"e", "1">>>>, <<<<"e", "1">>, <<"e", "2">>>>}

\* FastmailClient(host, token), lines 39-49
InitClient ==
  /\ op = "client"
  /\ Only_client
  /\ session = FALSE
  /\ mailboxes_cache = <<>>
  /\ server \in ServerStates
  /\ fetches = <<>>
  /\ outcome = NoOutcome

\* the mailboxes on the server change
ServerChanges ==
  /\ op = "client"
  /\ \E new \in ServerStates \ {server} : server' = new
  /\ outcome' = Outcome("server", session, "changed", 0, mailboxes_cache, FALSE, <<>>, <<>>)
  /\ UNCHANGED <<session, mailboxes_cache, fetches>>
  /\ UNCHANGED outside_client

\* connect, lines 66-103: the client is created and the identity asked for
Connect ==
  /\ op = "client"
  /\ session' = TRUE
  /\ outcome' = Outcome("connect", session, "returned", 2, mailboxes_cache, FALSE, <<>>, <<>>)
  /\ UNCHANGED <<mailboxes_cache, server, fetches>>
  /\ UNCHANGED outside_client

\* disconnect, lines 105-108
Disconnect ==
  /\ op = "client"
  /\ session' = FALSE
  /\ mailboxes_cache' = <<>>
  /\ outcome' = Outcome("disconnect", session, "returned", 0, mailboxes_cache, FALSE, <<>>, <<>>)
  /\ UNCHANGED <<server, fetches>>
  /\ UNCHANGED outside_client

\* get_mailboxes(force_refresh), lines 110-131: up to the await
GetMailboxes ==
  /\ op = "client"
  /\ \E force_refresh \in BOOLEAN :
       IF ~session
         THEN /\ outcome' = NotConnected("get_mailboxes", mailboxes_cache)
              /\ UNCHANGED fetches
         ELSE IF ~force_refresh /\ mailboxes_cache # <<>>
           THEN /\ outcome' = Outcome("get_mailboxes", TRUE, "returned", 0, mailboxes_cache,
                                      force_refresh, <<>>, sort_mailboxes(mailboxes_cache))
                /\ UNCHANGED fetches
           ELSE /\ Len(fetches) < MaxFetches
                /\ fetches' = Append(fetches, [force_refresh |-> force_refresh,
                                               response |-> server])
                /\ outcome' = Outcome("get_mailboxes", TRUE, "awaiting", 1, mailboxes_cache,
                                      force_refresh, <<>>, <<>>)
  /\ UNCHANGED <<session, mailboxes_cache, server>>
  /\ UNCHANGED outside_client

\* get_mailboxes, lines 133-140: after the await
GetMailboxesReturns ==
  /\ op = "client"
  /\ \E k \in 1..Len(fetches) :
       /\ mailboxes_cache' = cache_after_fetch(mailboxes_cache, fetches[k].response)
       /\ outcome' = Outcome("get_mailboxes", TRUE, "returned", 1, mailboxes_cache,
                             fetches[k].force_refresh, fetches[k].response,
                             sort_mailboxes(cache_fill(<<>>, fetches[k].response)))
       /\ fetches' = SubSeq(fetches, 1, k - 1) \o SubSeq(fetches, k + 1, Len(fetches))
  /\ UNCHANGED <<session, server>>
  /\ UNCHANGED outside_client

\* get_emails, lines 153-231, and search_emails, lines 309-333, which calls
\* it: one query, and one get when the query found ids
GetEmails ==
  /\ op = "client"
  /\ \E operation \in {"get_emails", "search_emails"}, sent \in {1, 2} :
       outcome' = IF ~session THEN NotConnected(operation, mailboxes_cache)
                  ELSE Returned(operation, sent, mailboxes_cache)
  /\ UNCHANGED <<session, mailboxes_cache, server, fetches>>
  /\ UNCHANGED outside_client

\* get_email_by_id, lines 233-307
GetEmailById ==
  /\ op = "client"
  /\ outcome' = IF ~session THEN NotConnected("get_email_by_id", mailboxes_cache)
                ELSE Returned("get_email_by_id", 1, mailboxes_cache)
  /\ UNCHANGED <<session, mailboxes_cache, server, fetches>>
  /\ UNCHANGED outside_client

\* get_thread, lines 430-486
GetThread ==
  /\ op = "client"
  /\ \E sent \in {1, 2} :
       outcome' = IF ~session THEN NotConnected("get_thread", mailboxes_cache)
                  ELSE Returned("get_thread", sent, mailboxes_cache)
  /\ UNCHANGED <<session, mailboxes_cache, server, fetches>>
  /\ UNCHANGED outside_client

\* lines 357-372, 380-395 and 417-428: the check of the session, then
\* nothing for no ids, else one EmailSet
email_set(operation, email_ids, connected, cache) ==
  IF ~connected THEN NotConnected(operation, cache)
  ELSE IF email_ids = <<>> THEN Returned(operation, 0, cache)
  ELSE Returned(operation, 1, cache)

\* mark_read, mark_unread, star, unstar, lines 335-349, by _update_keywords,
\* lines 351-372
UpdateKeywords ==
  /\ op = "client"
  /\ \E operation \in {"mark_read", "mark_unread", "star", "unstar"},
        email_ids \in EmailIds :
       outcome' = email_set(operation, email_ids, session, mailboxes_cache)
  /\ UNCHANGED <<session, mailboxes_cache, server, fetches>>
  /\ UNCHANGED outside_client

\* move_to_mailbox, lines 374-395
MoveToMailbox ==
  /\ op = "client"
  /\ \E email_ids \in EmailIds :
       outcome' = email_set("move_to_mailbox", email_ids, session, mailboxes_cache)
  /\ UNCHANGED <<session, mailboxes_cache, server, fetches>>
  /\ UNCHANGED outside_client

\* lines 397-413: the mailbox of the role is looked up in the cache, and
\* move_to_mailbox is called only when there is one
move_by_role(operation, roles, email_ids, connected, cache) ==
  LET found == SelectSeq([i \in 1..Len(roles) |-> get_mailbox_by_role(cache, roles[i])],
                         LAMBDA box : box # None)
  IN  IF found # <<>>
        THEN email_set(operation, email_ids, connected, cache)
        ELSE Outcome(operation, connected, "returned", 0, cache, FALSE, <<>>, <<>>)

\* move_to_trash, archive, move_to_spam, lines 397-413
MoveByRole ==
  /\ op = "client"
  /\ \E call \in {<<"move_to_trash", <<<<"t", "r", "a", "s", "h">>>>>>,
                  <<"archive", <<<<"a", "r", "c", "h", "i", "v", "e">>>>>>,
                  <<"move_to_spam", <<<<"s", "p", "a", "m">>, <<"j", "u", "n", "k">>>>>>},
        email_ids \in EmailIds :
       outcome' = move_by_role(call[1], call[2], email_ids, session, mailboxes_cache)
  /\ UNCHANGED <<session, mailboxes_cache, server, fetches>>
  /\ UNCHANGED outside_client

\* delete_permanently, lines 415-428
DeletePermanently ==
  /\ op = "client"
  /\ \E email_ids \in EmailIds :
       outcome' = email_set("delete_permanently", email_ids, session, mailboxes_cache)
  /\ UNCHANGED <<session, mailboxes_cache, server, fetches>>
  /\ UNCHANGED outside_client

NextClient ==
  \/ ServerChanges
  \/ Connect
  \/ Disconnect
  \/ GetMailboxes
  \/ GetMailboxesReturns
  \/ GetEmails
  \/ GetEmailById
  \/ GetThread
  \/ UpdateKeywords
  \/ MoveToMailbox
  \/ MoveByRole
  \/ DeletePermanently

SpecClient == InitClient /\ [][NextClient]_vars

----------------------------------------------------------------------------
(* ui/widgets/mailbox_tree.py: MailboxTree.update_mailboxes                *)

\* update_mailboxes is handed up to MaxTreeBoxes mailboxes
MaxTreeBoxes == 3
\* the interpreter's recursion limit: the frames of _add_mailbox_node above
\* those the list can need
MaxFramesOver == 1

\* the fields of a Mailbox the tree's structure depends on
TreeMailbox(id, parent_id) == [id |-> id, parent_id |-> parent_id]

TreeIds == <<<<"a">>, <<"b">>, <<"c">>, <<"d">>, <<"e">>>>

\* the lists handed over: distinct ids, and as parent_id None, an id of the
\* list (the mailbox's own too) or an id that is not in the list
TreeLists ==
  UNION {{[i \in 1..n |-> TreeMailbox(TreeIds[i], parent[i])] :
            parent \in [1..n -> {None, Some(<<"z">>)} \cup {Some(TreeIds[j]) : j \in 1..n}]} :
         n \in 0..MaxTreeBoxes}

\* the frames the interpreter allows
recursion_limit(boxes) == Len(boxes) + MaxFramesOver

\* self._boxes[mailbox.id] = mailbox for every mailbox, lines 85-86
by_id(boxes) ==
  [id \in {boxes[i].id : i \in 1..Len(boxes)} |->
     boxes[CHOOSE i \in 1..Len(boxes) :
                 /\ boxes[i].id = id
                 /\ \A j \in 1..Len(boxes) : boxes[j].id = id => j <= i]]

\* a frame of _add_mailbox_node: its mailbox, and whether it waits for the
\* call of line 116 to return
Frame(mailbox, waiting) == [mailbox |-> mailbox, waiting |-> waiting]

Root == <<"r", "o", "o", "t">>

\* line 112: mailbox.parent_id and mailbox.parent_id in self._mailboxes
has_parent(mailbox, known) ==
  /\ mailbox.parent_id # None
  /\ mailbox.parent_id[1] # <<>>
  /\ mailbox.parent_id[1] \in DOMAIN known

InitTree ==
  /\ op = "tree"
  /\ Only_tree
  /\ tree_arg \in TreeLists
  /\ tree_mailboxes = <<>>
  /\ tree_nodes = <<>>
  /\ tree_next = 0
  /\ tree_stack = <<>>
  /\ tree_status = "not called"

\* update_mailboxes(mailboxes), lines 80-86
UpdateMailboxes ==
  /\ op = "tree"
  /\ tree_status = "not called"
  /\ tree_status' = "running"
  /\ tree_mailboxes' = by_id(tree_arg)
  /\ tree_nodes' = <<>>
  /\ tree_next' = 1
  /\ UNCHANGED <<tree_arg, tree_stack>>
  /\ UNCHANGED outside_tree

\* lines 89-90: the loop calls _add_mailbox_node for the next mailbox
AddNextMailbox ==
  /\ op = "tree"
  /\ tree_status = "running"
  /\ tree_stack = <<>>
  /\ tree_next <= Len(tree_arg)
  /\ tree_stack' = <<Frame(tree_arg[tree_next], FALSE)>>
  /\ tree_next' = tree_next + 1
  /\ UNCHANGED <<tree_arg, tree_mailboxes, tree_nodes, tree_status>>
  /\ UNCHANGED outside_tree

\* _add_mailbox_node(mailbox), lines 104-124: the innermost frame runs up to
\* its call of itself, or to its return
AddMailboxNode ==
  /\ op = "tree"
  /\ tree_status = "running"
  /\ tree_stack # <<>>
  /\ LET frame == tree_stack[Len(tree_stack)]
         mailbox == frame.mailbox
         made == {tree_nodes[i].id : i \in 1..Len(tree_nodes)}
         caller == SubSeq(tree_stack, 1, Len(tree_stack) - 1)
     IN  IF frame.waiting
           \* line 116 has returned the parent's node: lines 121-124
           THEN /\ tree_nodes' = Append(tree_nodes, [id |-> mailbox.id,
                                                     under |-> mailbox.parent_id[1]])
                /\ tree_stack' = caller
                /\ UNCHANGED tree_status
         ELSE IF mailbox.id \in made
           \* lines 104-105
           THEN /\ tree_stack' = caller
                /\ UNCHANGED <<tree_nodes, tree_status>>
         ELSE IF has_parent(mailbox, tree_mailboxes) /\ mailbox.parent_id[1] \notin made
           \* lines 114-116: the parent is added first
           THEN IF Len(tree_stack) >= recursion_limit(tree_arg)
                  THEN /\ tree_status' = "RecursionError"
                       /\ tree_stack' = <<>>
                       /\ UNCHANGED tree_nodes
                  ELSE /\ tree_stack' = caller
                             \o <<Frame(mailbox, TRUE),
                                  Frame(tree_mailboxes[mailbox.parent_id[1]], FALSE)>>
                       /\ UNCHANGED <<tree_nodes, tree_status>>
         \* lines 111, 118 and 121-124
         ELSE /\ tree_nodes' = Append(tree_nodes,
                                      [id |-> mailbox.id,
                                       under |-> IF has_parent(mailbox, tree_mailboxes)
                                                   THEN mailbox.parent_id[1] ELSE Root])
              /\ tree_stack' = caller
              /\ UNCHANGED tree_status
  /\ UNCHANGED <<tree_arg, tree_mailboxes, tree_next>>
  /\ UNCHANGED outside_tree

\* line 93: the loop is over
UpdateMailboxesReturns ==
  /\ op = "tree"
  /\ tree_status = "running"
  /\ tree_stack = <<>>
  /\ tree_next > Len(tree_arg)
  /\ tree_status' = "returned"
  /\ UNCHANGED <<tree_arg, tree_mailboxes, tree_nodes, tree_next, tree_stack>>
  /\ UNCHANGED outside_tree

NextTree ==
  \/ UpdateMailboxes
  \/ AddNextMailbox
  \/ AddMailboxNode
  \/ UpdateMailboxesReturns

SpecTree == InitTree /\ [][NextTree]_vars

----------------------------------------------------------------------------
(* app.py: FastmailTUI, its handlers and its refresh timer                 *)

\* the mailboxes of the account, by id
AppMailboxes == {"inbox", "work", "news"}

\* a coroutine that awaits: the handler it runs for, the await it stands at,
\* the mailbox_id its get_emails was called with, the screen it switched to
Task(handler, stage, mailbox_id, target) ==
  [handler |-> handler, stage |-> stage, mailbox_id |-> mailbox_id, target |-> target]

Idle == Task("", "", "", "")

\* email_list.update_emails(self._emails, self._current_mailbox.display_name,
\* self._current_mailbox.total_emails), lines 225-229 and 255-259
Listed(fetched_for, current) == [fetched_for |-> fetched_for, shown_as |-> current[1]]

Last(handler, screen) == [handler |-> handler, screen |-> screen]

\* FastmailTUI(config), lines 108-122
InitApp ==
  /\ op = "app"
  /\ Only_app
  /\ current_mailbox = None
  /\ app_emails = None
  /\ email_list = None
  /\ pump = Idle
  /\ timer = Idle
  /\ timer_on = FALSE
  /\ app_mounted = FALSE
  /\ current_screen = "inbox"
  /\ screen_shown = "default"
  /\ preview_shown = FALSE
  /\ last_action = Last("__init__", "inbox")

app_frame_mount == <<timer_on, app_mounted, screen_shown>>

app_frame_screens == <<current_screen, screen_shown, preview_shown>>

app_frame_emails == <<app_emails, email_list>>

\* on_mount, lines 131-142, and _connect, lines 147-181, up to the await of
\* get_mailboxes in _load_mailboxes, line 200
OnMountApp ==
  /\ op = "app"
  /\ ~app_mounted
  /\ pump = Idle
  /\ pump' = Task("on_mount", "get_mailboxes", "", "")
  /\ UNCHANGED <<current_mailbox, timer, last_action>>
  /\ UNCHANGED <<app_frame_mount, app_frame_screens, app_frame_emails>>
  /\ UNCHANGED outside_app

\* _load_mailboxes, lines 200-211: the inbox becomes the current mailbox
\* unless there is none or the call fails; then _load_inbox, lines 215-222,
\* up to its await of get_emails
OnMountLoadsInbox ==
  /\ op = "app"
  /\ pump.handler = "on_mount"
  /\ pump.stage = "get_mailboxes"
  /\ \E found \in BOOLEAN :
       /\ current_mailbox' = IF found THEN Some("inbox") ELSE current_mailbox
       /\ pump' = IF current_mailbox' = None THEN Task("on_mount", "set_interval", "", "")
                  ELSE Task("on_mount", "get_emails", current_mailbox'[1], "")
  /\ UNCHANGED <<timer, last_action>>
  /\ UNCHANGED <<app_frame_mount, app_frame_screens, app_frame_emails>>
  /\ UNCHANGED outside_app

\* _connect, lines 185-188, and on_mount, line 145
OnMountReturns ==
  /\ op = "app"
  /\ pump.handler = "on_mount"
  /\ pump.stage = "set_interval"
  /\ timer_on' = TRUE
  /\ screen_shown' = "inbox"
  /\ app_mounted' = TRUE
  /\ pump' = Idle
  /\ last_action' = Last("on_mount", current_screen)
  /\ UNCHANGED <<current_mailbox, timer, current_screen, preview_shown>>
  /\ UNCHANGED app_frame_emails
  /\ UNCHANGED outside_app

\* on_mailbox_tree_mailbox_selected, lines 274-280, up to the await of
\* get_emails in _load_inbox, line 219
MailboxSelected ==
  /\ op = "app"
  /\ app_mounted
  /\ pump = Idle
  /\ \E mailbox \in AppMailboxes :
       /\ current_mailbox' = Some(mailbox)
       /\ pump' = Task("on_mailbox_tree_mailbox_selected", "get_emails", mailbox, "")
  /\ UNCHANGED <<timer, last_action>>
  /\ UNCHANGED <<app_frame_mount, app_frame_screens, app_frame_emails>>
  /\ UNCHANGED outside_app

\* action_refresh, lines 539-542, up to the await of get_mailboxes in
\* _background_refresh, line 244
ActionRefresh ==
  /\ op = "app"
  /\ app_mounted
  /\ pump = Idle
  /\ IF current_mailbox = None
       THEN /\ last_action' = Last("action_refresh", current_screen)
            /\ UNCHANGED pump
       ELSE /\ pump' = Task("action_refresh", "get_mailboxes", "", "")
            /\ UNCHANGED last_action
  /\ UNCHANGED <<current_mailbox, timer>>
  /\ UNCHANGED <<app_frame_mount, app_frame_screens, app_frame_emails>>
  /\ UNCHANGED outside_app

\* the interval timer calls _background_refresh, lines 234-244, in its own
\* task; it calls again only when the call has returned
TimerTick ==
  /\ op = "app"
  /\ timer_on
  /\ timer = Idle
  /\ current_mailbox # None
  /\ timer' = Task("_background_refresh", "get_mailboxes", "", "")
  /\ UNCHANGED <<current_mailbox, pump, last_action>>
  /\ UNCHANGED <<app_frame_mount, app_frame_screens, app_frame_emails>>
  /\ UNCHANGED outside_app

\* _background_refresh, lines 244-252: get_mailboxes has returned, or raised;
\* get_emails is called with the id of the mailbox that is current now
refresh_got_mailboxes(task, failed) ==
  IF failed THEN Idle ELSE Task(task.handler, "get_emails", current_mailbox[1], "")

\* lines 219-229 and 249-259: get_emails has returned, or raised
emails_after(task, failed) == IF failed THEN app_emails ELSE Some(task.mailbox_id)

\* lines 224-229 and 254-259: the list is updated with the emails fetched and
\* with the name and total of the mailbox that is current now
email_list_after(task, failed) ==
  IF failed THEN email_list ELSE Some(Listed(task.mailbox_id, current_mailbox))

\* the timer's _background_refresh goes on after its await of get_mailboxes
TimerGotMailboxes ==
  /\ op = "app"
  /\ timer.stage = "get_mailboxes"
  /\ \E failed \in BOOLEAN : timer' = refresh_got_mailboxes(timer, failed)
  /\ UNCHANGED <<current_mailbox, pump, last_action>>
  /\ UNCHANGED <<app_frame_mount, app_frame_screens, app_frame_emails>>
  /\ UNCHANGED outside_app

\* the timer's _background_refresh goes on after its await of get_emails,
\* lines 249-270
TimerGotEmails ==
  /\ op = "app"
  /\ timer.stage = "get_emails"
  /\ \E failed \in BOOLEAN :
       /\ app_emails' = emails_after(timer, failed)
       /\ email_list' = email_list_after(timer, failed)
  /\ timer' = Idle
  /\ UNCHANGED <<current_mailbox, pump, last_action>>
  /\ UNCHANGED <<app_frame_mount, app_frame_screens>>
  /\ UNCHANGED outside_app

\* action_refresh: its _background_refresh goes on after get_mailboxes
PumpGotMailboxes ==
  /\ op = "app"
  /\ pump.handler = "action_refresh"
  /\ pump.stage = "get_mailboxes"
  /\ \E failed \in BOOLEAN :
       /\ pump' = refresh_got_mailboxes(pump, failed)
       /\ last_action' = IF failed THEN Last("action_refresh", current_screen)
                         ELSE last_action
  /\ UNCHANGED <<current_mailbox, timer>>
  /\ UNCHANGED <<app_frame_mount, app_frame_screens, app_frame_emails>>
  /\ UNCHANGED outside_app

\* a handler of the pump goes on after its await of get_emails: _load_inbox,
\* lines 219-232, or _background_refresh, lines 249-270
PumpGotEmails ==
  /\ op = "app"
  /\ pump.stage = "get_emails"
  /\ \E failed \in BOOLEAN :
       /\ app_emails' = emails_after(pump, failed)
       /\ email_list' = email_list_after(pump, failed)
  /\ IF pump.handler = "on_mount"
       THEN /\ pump' = Task("on_mount", "set_interval", "", "")
            /\ UNCHANGED last_action
       ELSE /\ pump' = Idle
            /\ last_action' = Last(pump.handler, current_screen)
  /\ UNCHANGED <<current_mailbox, timer>>
  /\ UNCHANGED <<app_frame_mount, app_frame_screens>>
  /\ UNCHANGED outside_app

\* on_email_list_email_selected, lines 282-303: the email is fetched and,
\* if there is one, shown in the preview
EmailSelected ==
  /\ op = "app"
  /\ app_mounted
  /\ pump = Idle
  /\ \E found \in BOOLEAN : preview_shown' = (found \/ preview_shown)
  /\ last_action' = Last("on_email_list_email_selected", current_screen)
  /\ UNCHANGED <<current_mailbox, pump, timer, current_screen, screen_shown>>
  /\ UNCHANGED <<app_frame_mount, app_frame_emails>>
  /\ UNCHANGED outside_app

\* action_masked_emails, lines 501-508, and action_quick_masked, lines
\* 516-519: up to the return of the await of switch_screen
SwitchScreen ==
  /\ op = "app"
  /\ app_mounted
  /\ pump = Idle
  /\ \E handler \in {"action_masked_emails", "action_quick_masked"} :
       LET target == IF handler = "action_masked_emails" /\ current_screen = "masked"
                       THEN "inbox" ELSE "masked"
       IN  /\ screen_shown' = target
           /\ pump' = Task(handler, "switch_screen", "", target)
  /\ UNCHANGED <<current_mailbox, timer, last_action, current_screen, preview_shown>>
  /\ UNCHANGED <<timer_on, app_mounted>>
  /\ UNCHANGED app_frame_emails
  /\ UNCHANGED outside_app

\* lines 505, 508-514 and 519-525: after the await of switch_screen
SwitchedScreen ==
  /\ op = "app"
  /\ pump.stage = "switch_screen"
  /\ current_screen' = pump.target
  /\ pump' = Idle
  /\ last_action' = Last(pump.handler, current_screen)
  /\ UNCHANGED <<current_mailbox, timer, screen_shown, preview_shown>>
  /\ UNCHANGED <<timer_on, app_mounted>>
  /\ UNCHANGED app_frame_emails
  /\ UNCHANGED outside_app

\* action_back, lines 544-550. On the masked screen it calls the coroutine
\* function action_masked_emails without awaiting it: a coroutine object is
\* made and dropped, and none of its body runs
ActionBack ==
  /\ op = "app"
  /\ app_mounted
  /\ pump = Idle
  /\ preview_shown' = IF current_screen = "masked" THEN preview_shown ELSE FALSE
  /\ last_action' = Last("action_back", current_screen)
  /\ UNCHANGED <<current_mailbox, pump, timer, current_screen, screen_shown>>
  /\ UNCHANGED <<app_frame_mount, app_frame_emails>>
  /\ UNCHANGED outside_app

NextApp ==
  \/ OnMountApp
  \/ OnMountLoadsInbox
  \/ OnMountReturns
  \/ MailboxSelected
  \/ ActionRefresh
  \/ TimerTick
  \/ TimerGotMailboxes
  \/ TimerGotEmails
  \/ PumpGotMailboxes
  \/ PumpGotEmails
  \/ EmailSelected
  \/ SwitchScreen
  \/ SwitchedScreen
  \/ ActionBack

SpecApp == InitApp /\ [][NextApp]_vars

----------------------------------------------------------------------------
(* ui/widgets/email_list.py: EmailList                                     *)

\* update_emails is handed up to MaxListed emails
MaxListed == 2

\* the ids of the emails of the account
ListedIds == {"e1", "e2", "e3"}

\* an Email, as far as the list reads it: its id and whether it is unread
ListedEmail(id, is_unread) == [id |-> id, is_unread |-> is_unread]

ListedEmails == {ListedEmail(id, u) : id \in ListedIds, u \in BOOLEAN}

ids_of(emails) == {emails[i].id : i \in DOMAIN emails}

\* the lists get_emails returns: an Email/get of the ids of an Email/query,
\* no id twice
ListsOfEmails ==
  {emails \in UNION {[1..n -> ListedEmails] : n \in 0..MaxListed} :
     Cardinality(ids_of(emails)) = Len(emails)}

ListLast(operation, sel) == [operation |-> operation, selected |-> sel]

\* EmailList(), lines 82-89, and the empty DataTable of on_mount, lines 101-105
InitList ==
  /\ op = "list"
  /\ Only_list
  /\ listed = <<>>
  /\ selected_ids = {}
  /\ cursor_row = 0
  /\ list_last = ListLast("__init__", {})

\* mutant: update_emails keeps the selection
selected_after_update_kept(sel) == sel

\* line 123: self._selected_ids.clear()
selected_after_update(sel) == {}

\* update_emails(emails, mailbox_name, total_count), lines 107-138;
\* table.clear() puts the cursor back on row 0
UpdateEmails ==
  /\ op = "list"
  /\ \E emails \in ListsOfEmails :
       /\ listed' = emails
       /\ selected_ids' = selected_after_update(selected_ids)
       /\ cursor_row' = 0
       /\ list_last' = ListLast("update_emails", selected_ids)
  /\ UNCHANGED outside_list

\* lines 211-214: the first email of the list with the id is replaced
refreshed(emails, email) ==
  LET found == {i \in DOMAIN emails : emails[i].id = email.id}
  IN  [i \in DOMAIN emails |->
         IF i \in found /\ \A j \in found : i <= j THEN email ELSE emails[i]]

\* refresh_email(email), lines 204-220
RefreshEmail ==
  /\ op = "list"
  /\ \E email \in ListedEmails :
       /\ listed' = refreshed(listed, email)
       /\ cursor_row' = 0
       /\ list_last' = ListLast("refresh_email", selected_ids)
  /\ UNCHANGED selected_ids
  /\ UNCHANGED outside_list

\* action_cursor_down, lines 270-273: the DataTable keeps the cursor on a row
CursorDown ==
  /\ op = "list"
  /\ cursor_row + 1 < Len(listed)
  /\ cursor_row' = cursor_row + 1
  /\ UNCHANGED <<listed, selected_ids, list_last>>
  /\ UNCHANGED outside_list

\* action_cursor_up, lines 275-278
CursorUp ==
  /\ op = "list"
  /\ cursor_row > 0
  /\ cursor_row' = cursor_row - 1
  /\ UNCHANGED <<listed, selected_ids, list_last>>
  /\ UNCHANGED outside_list

\* get_selected_email(), lines 228-231
get_selected_email ==
  IF 0 <= cursor_row /\ cursor_row < Len(listed)
  THEN Some(listed[cursor_row + 1])
  ELSE None

\* lines 296-299
toggled(sel, id) ==
  IF id \in sel THEN sel \ {id} ELSE sel \union {id}

\* action_toggle_select, lines 292-307
ToggleSelect ==
  /\ op = "list"
  /\ LET email == get_selected_email
     IN  IF email # None
         THEN /\ selected_ids' = toggled(selected_ids, email[1].id)
              /\ cursor_row' = 0
         ELSE UNCHANGED <<selected_ids, cursor_row>>
  /\ list_last' = ListLast("toggle_select", selected_ids)
  /\ UNCHANGED listed
  /\ UNCHANGED outside_list

\* lines 311-316
select_all(sel, emails) ==
  IF Cardinality(sel) = Len(emails) THEN {} ELSE ids_of(emails)

\* action_select_all, lines 309-324
SelectAll ==
  /\ op = "list"
  /\ selected_ids' = select_all(selected_ids, listed)
  /\ cursor_row' = 0
  /\ list_last' = ListLast("select_all", selected_ids)
  /\ UNCHANGED listed
  /\ UNCHANGED outside_list

\* clear_selection, lines 326-329
ClearSelection ==
  /\ op = "list"
  /\ selected_ids' = {}
  /\ list_last' = ListLast("clear_selection", selected_ids)
  /\ UNCHANGED <<listed, cursor_row>>
  /\ UNCHANGED outside_list

NextList ==
  \/ UpdateEmails
  \/ RefreshEmail
  \/ CursorDown
  \/ CursorUp
  \/ ToggleSelect
  \/ SelectAll
  \/ ClearSelection

SpecList == InitList /\ [][NextList]_vars

----------------------------------------------------------------------------
(* ui/screens/setup.py: SetupScreen._save_credentials                      *)

\* the inputs hold up to MaxTokenLen and MaxKeyLen characters
MaxTokenLen == 4
MaxKeyLen == 2

\* the keys a user presses in the token input, and in the Claude key input
TokenKeys == {"f", "m", "u", " "}
ClaudeKeys == {"k", " "}

\* services/credentials.py, lines 23-25 and 41-43: keyring.set_password
set_password(ring, username, value) == [ring EXCEPT ![username] = Some(value)]

Write(username, value) == [username |-> username, value |-> value]

SetupLast(called, written) == [called |-> called, written |-> written]

\* SetupScreen() mounted, lines 139-141: the inputs are empty; the app shows
\* the screen when the keyring holds no Fastmail token (app.py, lines 134-136)
InitSetup ==
  /\ op = "setup"
  /\ Only_setup
  /\ token_input = <<>>
  /\ claude_input = <<>>
  /\ \E old \in {None, Some(<<"k">>)} :
       keyring = [fastmail_token |-> None, claude_api_key |-> old]
  /\ error_message = None
  /\ dismissed = None
  /\ setup_last = SetupLast(FALSE, <<>>)

\* a key pressed in the token input
TypeToken ==
  /\ op = "setup"
  /\ dismissed = None
  /\ Len(token_input) < MaxTokenLen
  /\ \E key \in TokenKeys : token_input' = Append(token_input, key)
  /\ setup_last' = SetupLast(FALSE, <<>>)
  /\ UNCHANGED <<claude_input, keyring, error_message, dismissed>>
  /\ UNCHANGED outside_setup

\* a key pressed in the Claude key input
TypeClaudeKey ==
  /\ op = "setup"
  /\ dismissed = None
  /\ Len(claude_input) < MaxKeyLen
  /\ \E key \in ClaudeKeys : claude_input' = Append(claude_input, key)
  /\ setup_last' = SetupLast(FALSE, <<>>)
  /\ UNCHANGED <<token_input, keyring, error_message, dismissed>>
  /\ UNCHANGED outside_setup

\* mutant: any token that is not empty is taken
token_accepted_any_prefix(fastmail_token) == fastmail_token # <<>>

\* lines 162 and 166: neither check returns
token_accepted(fastmail_token) ==
  /\ fastmail_token # <<>>
  /\ startswith(fastmail_token, <<"f", "m", "u">>)

\* lines 163 and 167: the message shown for a token that is not taken
token_error(fastmail_token) ==
  IF fastmail_token = <<>>
  THEN "Fastmail API token is required"
  ELSE "Invalid token format. Should start with 'fmu'"

\* _save_credentials, lines 156-182; either set_password of the keyring may
\* raise, and what was set before it stays set
SaveCredentials ==
  /\ op = "setup"
  /\ dismissed = None
  /\ LET fastmail_token == strip(token_input)
         claude_key == strip(claude_input)
         with_token == set_password(keyring, "fastmail_token", fastmail_token)
         token_write == Write("fastmail_token", fastmail_token)
         key_write == Write("claude_api_key", claude_key)
     IN  IF ~token_accepted(fastmail_token)
         THEN /\ error_message' = Some(token_error(fastmail_token))
              /\ setup_last' = SetupLast(TRUE, <<>>)
              /\ UNCHANGED <<keyring, dismissed>>
         ELSE \E raises \in {"", "set_fastmail_token", "set_claude_api_key"} :
                CASE raises = "set_fastmail_token" ->
                       /\ error_message' = Some("Failed to save credentials")
                       /\ setup_last' = SetupLast(TRUE, <<>>)
                       /\ UNCHANGED <<keyring, dismissed>>
                  [] raises = "set_claude_api_key" ->
                       /\ claude_key # <<>>
                       /\ keyring' = with_token
                       /\ error_message' = Some("Failed to save credentials")
                       /\ setup_last' = SetupLast(TRUE, <<token_write>>)
                       /\ UNCHANGED dismissed
                  [] OTHER ->
                       /\ keyring' =
                            IF claude_key # <<>>
                            THEN set_password(with_token, "claude_api_key", claude_key)
                            ELSE with_token
                       /\ setup_last' =
                            SetupLast(TRUE, IF claude_key # <<>>
                                            THEN <<token_write, key_write>>
                                            ELSE <<token_write>>)
                       /\ dismissed' = Some(TRUE)
                       /\ UNCHANGED error_message
  /\ UNCHANGED <<token_input, claude_input>>
  /\ UNCHANGED outside_setup

NextSetup ==
  \/ TypeToken
  \/ TypeClaudeKey
  \/ SaveCredentials

SpecSetup == InitSetup /\ [][NextSetup]_vars

----------------------------------------------------------------------------
(* api/masked_email.py: MaskedEmailManager.toggle                          *)

\* up to MaxToggles calls of toggle are made
MaxToggles == 2

\* the ids of the masked emails of the account
MaskedIds == {"me1", "me2"}

\* MaskedEmail.state, line 20, and a value that is none of the four
MaskedStates == {"enabled", "disabled", "deleted", "pending"}
CurrentStates == MaskedStates \union {""}

\* MaskedEmailSet(update={masked_email_id: {"state": state}}), line 227
StateUpdate(masked_email_id, state) == [id |-> masked_email_id, state |-> state]

\* mutant: only 'disabled' is turned into 'enabled'
new_state_if_disabled(current_state) ==
  IF current_state = "disabled" THEN "enabled" ELSE "disabled"

\* line 217
new_state(current_state) ==
  IF current_state = "enabled" THEN "disabled" ELSE "enabled"

ToggleTask(masked_email_id, current_state, state, sent) ==
  [id |-> masked_email_id, current_state |-> current_state, state |-> state, sent |-> sent]

Toggled(task, status, value) ==
  [id |-> task.id, current_state |-> task.current_state, sent |-> task.sent,
   status |-> status, value |-> value]

\* MaskedEmailManager(client), and the masked emails the server holds
InitManager ==
  /\ op = "manager"
  /\ Only_manager
  /\ masked_states \in [MaskedIds -> {"enabled", "pending"}]
  /\ toggle_task = None
  /\ toggles = <<>>

\* toggle(masked_email_id, current_state), lines 217-218, and _set_state,
\* lines 223-230, up to the await of the executor; the caller passes the state
\* it last got from toggle for the id, or any state
Toggle ==
  /\ op = "manager"
  /\ toggle_task = None
  /\ Len(toggles) < MaxToggles
  /\ \E masked_email_id \in MaskedIds, current_state \in CurrentStates :
       toggle_task' =
         Some(ToggleTask(masked_email_id, current_state, new_state(current_state), <<>>))
  /\ UNCHANGED <<masked_states, toggles>>
  /\ UNCHANGED outside_manager

\* _update, lines 225-228, in the executor: the request is sent; the server
\* makes the update or refuses it, or the request raises
SetStateRuns ==
  /\ op = "manager"
  /\ toggle_task # None
  /\ toggle_task[1].sent = <<>>
  /\ LET task == toggle_task[1]
     IN  /\ toggle_task' =
              Some([task EXCEPT !.sent = Append(@, StateUpdate(task.id, task.state))])
         /\ \E updated \in BOOLEAN :
              masked_states' =
                IF updated THEN [masked_states EXCEPT ![task.id] = task.state]
                ELSE masked_states
  /\ UNCHANGED toggles
  /\ UNCHANGED outside_manager

\* lines 230 and 218-219: the await returns and toggle returns new_state, or
\* the request has raised and toggle raises
ToggleReturns ==
  /\ op = "manager"
  /\ toggle_task # None
  /\ toggle_task[1].sent # <<>>
  /\ \E raised \in BOOLEAN :
       toggles' =
         Append(toggles,
                IF raised THEN Toggled(toggle_task[1], "raised", "")
                ELSE Toggled(toggle_task[1], "returned", toggle_task[1].state))
  /\ toggle_task' = None
  /\ UNCHANGED masked_states
  /\ UNCHANGED outside_manager

NextManager ==
  \/ Toggle
  \/ SetStateRuns
  \/ ToggleReturns

SpecManager == InitManager /\ [][NextManager]_vars

----------------------------------------------------------------------------
(* Properties of the secret generator.                                     *)

\* generate_password has returned
Generated ==
  /\ done
  /\ op \in {"generate_password", "generate_password_default", "command", "new_login"}

\* generate_memorable_password has returned
GeneratedMemorable ==
  /\ done
  /\ op \in {"generate_memorable_password", "command_memorable"}

\* password_strength has returned
Rated ==
  /\ done
  /\ op \in {"password_strength", "command", "command_memorable", "new_login"}

NoClass(o) ==
  /\ ~o.include_lowercase
  /\ ~o.include_uppercase
  /\ ~o.include_digits
  /\ ~o.include_symbols

Ambiguous == {"0", "O", "1", "l", "I", "|"}

\* C1 as claimed: with exclude_ambiguous set, whatever the class flags are, no
\* character of the password returned is one of 0 O 1 l I |. The code breaks
\* it: with no class enabled the fallback alphabet is not filtered.
C1_NoAmbiguousCharacter ==
  (Generated /\ options.exclude_ambiguous)
    => \A i \in 1..Len(password) : password[i] \notin Ambiguous

\* C2: for length = L >= 1 and every combination of the flags, the password
\* returned has exactly L characters.
C2_ExactLength ==
  (Generated /\ options.length >= 1) => Len(password) = options.length

C2_Witness ==
  /\ Generated
  /\ op = "generate_password"
  /\ options.length = 32
  /\ ~options.exclude_ambiguous
  /\ Len(password) = 32

\* the characters of the classes the options enable
EnabledChars(o) ==
  (IF o.include_lowercase THEN {"a", "b", "c", "d", "e", "f", "g", "h", "i", "j",
     "k", "l", "m", "n", "o", "p", "q", "r", "s", "t", "u", "v", "w", "x", "y", "z"}
   ELSE {})
  \cup (IF o.include_uppercase THEN {"A", "B", "C", "D", "E", "F", "G", "H", "I",
     "J", "K", "L", "M", "N", "O", "P", "Q", "R", "S", "T", "U", "V", "W", "X", "Y",
     "Z"} ELSE {})
  \cup (IF o.include_digits THEN {"0", "1", "2", "3", "4", "5", "6", "7", "8", "9"}
   ELSE {})
  \cup (IF o.include_symbols THEN Range(SYMBOLS) ELSE {})

\* C3: with a class enabled every character returned is of an enabled class;
\* and without include_symbols no character of the symbol set is returned.
C3_OnlyEnabledClasses ==
  Generated =>
    /\ ~NoClass(options) =>
         \A i \in 1..Len(password) : password[i] \in EnabledChars(options)
    /\ ~options.include_symbols =>
         \A i \in 1..Len(password) : password[i] \notin Range(SYMBOLS)

C3_Witness ==
  /\ Generated
  /\ options.length = 20
  /\ ~options.include_symbols
  /\ options.include_digits
  /\ options.include_lowercase
  /\ options.include_uppercase
  /\ \E i \in 1..Len(password) : isdigit(password[i])
  /\ \E i \in 1..Len(password) : isupper(password[i])

\* C4: the fallback alphabet is drawn from exactly when no class is enabled:
\* removing the ambiguous characters never empties the alphabet of an enabled
\* class, and with no class the call returns letters and digits only.
C4_FallbackIffNoClass ==
  Generated =>
    /\ (stripped = <<>>) <=> NoClass(options)
    /\ stripped # <<>> => chars = stripped
    /\ stripped = <<>> =>
         /\ chars = ascii_lowercase \o ascii_uppercase \o digits
         /\ Len(password) = options.length
         /\ \A i \in 1..Len(password) :
              islower(password[i]) \/ isupper(password[i]) \/ isdigit(password[i])

C4_Witness ==
  /\ Generated
  /\ NoClass(options)
  /\ options.length = 2
  /\ stripped = <<>>
  /\ isupper(password[1])
  /\ isdigit(password[2])

\* a separator that is not empty and holds no lowercase letter and no digit
PlainSeparator(sep) ==
  /\ sep # <<>>
  /\ \A i \in 1..Len(sep) : ~islower(sep[i]) /\ ~isdigit(sep[i])

\* C5 as claimed: for every separator, the memorable password splits on it
\* into num_words + 1 segments. Stated here for the separators str.split
\* takes, the non-empty ones; the code breaks it for a separator that occurs
\* in a word or in the numeral.
C5_SegmentsForEverySeparator ==
  (GeneratedMemorable /\ separator # <<>>)
    => Len(split(password, separator)) = num_words + 1

\* C5 as amended: for every num_words >= 1 and every non-empty separator with
\* no lowercase letter and no digit in it, the memorable password splits on
\* the separator into exactly num_words + 1 segments.
C5_Segments ==
  (GeneratedMemorable /\ PlainSeparator(separator))
    => Len(split(password, separator)) = num_words + 1

C5_Witness ==
  /\ GeneratedMemorable
  /\ num_words = 4
  /\ separator = <<"-">>
  /\ Len(split(password, separator)) = 5

\* the numeral of an integer in 0..99, not padded
IsNumeral(t) ==
  /\ Len(t) \in {1, 2}
  /\ \A i \in 1..Len(t) : t[i] \in {"0", "1", "2", "3", "4", "5", "6", "7", "8", "9"}
  /\ Len(t) = 2 => t[1] # "0"

\* the segments are num_words words of the list and then a numeral
WordsThenNumeral(segs, n) ==
  /\ Len(segs) = n + 1
  /\ IsNumeral(segs[Len(segs)])
  /\ \A i \in 1..n : \E w \in 1..Len(words) : segs[i] = words[w]

\* C6 as claimed: of every result, whatever the separator, the trailing
\* segment is an unpadded numeral of 0..99 and the num_words segments before
\* it are words of the list. Stated here for the non-empty separators.
C6_NumeralForEverySeparator ==
  (GeneratedMemorable /\ separator # <<>>)
    => WordsThenNumeral(split(password, separator), num_words)

\* C6 as amended: for a non-empty separator with no lowercase letter and no
\* digit in it, the trailing segment is the unpadded numeral of an integer in
\* 0..99 and each of the num_words segments before it is a word of the list.
C6_WordsThenNumeral ==
  (GeneratedMemorable /\ PlainSeparator(separator))
    => /\ WordsThenNumeral(split(password, separator), num_words)
       /\ split(password, separator) = selected

C6_Witness ==
  /\ GeneratedMemorable
  /\ separator = <<"-", "-">>
  /\ num_words = 2
  /\ LET segs == split(password, separator)
     IN  /\ Len(segs) = 3
         /\ segs[1] = <<"h", "a", "r", "b", "o", "r">>
         /\ segs[3] = <<"7">>

Thresholds == {8, 12, 16, 24}

\* the classes a string holds a character of
ClassesPresent(p) ==
  {c \in {"lower", "upper", "digit", "symbol"} :
     \E i \in 1..Len(p) :
       \/ c = "lower" /\ p[i] \in Range(ascii_lowercase)
       \/ c = "upper" /\ p[i] \in Range(ascii_uppercase)
       \/ c = "digit" /\ p[i] \in Range(digits)
       \/ c = "symbol" /\ p[i] \in Range(punctuation)}

\* C7: the score is the number of thresholds 8, 12, 16, 24 the length reaches
\* plus the number of classes present; it is in 0..8 = max_score, the length
\* reported is the string's, and the score is 8 exactly for a length of 24 or
\* more with all four classes.
C7_Score ==
  Rated =>
    /\ report.score =
         Cardinality({t \in Thresholds : Len(password) >= t})
           + Cardinality(ClassesPresent(password))
    /\ report.score \in 0..8
    /\ report.max_score = 8
    /\ report.length = Len(password)
    /\ report.score = 8
         <=> (Len(password) >= 24 /\ Cardinality(ClassesPresent(password)) = 4)

C7_Witness ==
  /\ Rated
  /\ op = "password_strength"
  /\ Len(password) = 24
  /\ report.score = 8

\* C8: the label follows the score: 7 and more strong, 5..6 good, 3..4
\* moderate, 0..2 weak; so "" is weak with score 0 and "abc" is weak with a
\* score under 3.
C8_Label ==
  Rated =>
    /\ report.score >= 7 => report.strength = "strong"
    /\ report.score \in 5..6 => report.strength = "good"
    /\ report.score \in 3..4 => report.strength = "moderate"
    /\ report.score \in 0..2 => report.strength = "weak"
    /\ password = <<>> => report.score = 0 /\ report.strength = "weak"
    /\ password = <<"a", "b", "c">> => report.score < 3 /\ report.strength = "weak"

C8_Witness ==
  /\ Rated
  /\ password = <<"a", "b", "c">>
  /\ report.score = 1
  /\ report.strength = "weak"

\* C9: every password generate_password returns for length 24 and the default
\* flags is rated good or strong, with a score of 5 or more.
C9_DefaultRatedGood ==
  (Generated /\ options = [PasswordOptions EXCEPT !.length = 24]) =>
    /\ password_strength(password).score >= 5
    /\ password_strength(password).strength \in {"strong", "good"}
    /\ op \in {"command", "new_login"} => report = password_strength(password)

C9_Witness ==
  /\ Generated
  /\ op = "new_login"
  /\ options = [PasswordOptions EXCEPT !.length = 24]
  /\ report.score = 5
  /\ report.strength = "good"

----------------------------------------------------------------------------
(* Properties of the mailbox ordering.                                     *)

\* sort_mailboxes has returned
Sorted == done /\ op = "sort_mailboxes"

\* the canonical roles in their order; spam and junk share a place
CanonicalOrder ==
  <<{<<"i", "n", "b", "o", "x">>}, {<<"d", "r", "a", "f", "t", "s">>}, {<<"s", "e", "n", "t">>}, {<<"a", "r", "c", "h", "i", "v", "e">>}, {<<"s", "p", "a", "m">>, <<"j", "u", "n", "k">>}, {<<"t", "r", "a", "s", "h">>}>>

HasRole(m) == m.role # None /\ m.role[1] # <<>>

\* the role matches a canonical one, in any case of letters
Canonical(m) ==
  HasRole(m) /\ \E k \in 1..Len(CanonicalOrder) : lower(m.role[1]) \in CanonicalOrder[k]

CanonicalPlace(m) ==
  CHOOSE k \in 1..Len(CanonicalOrder) : lower(m.role[1]) \in CanonicalOrder[k]

RolesOf(ms) == [i \in 1..Len(ms) |-> ms[i].role]

\* C10: in the list returned every mailbox with a canonical role comes before
\* every mailbox without a role, and the canonical roles come in the order
\* inbox, drafts, sent, archive, spam/junk, trash; roles trash, inbox,
\* archive are returned as inbox, archive, trash.
C10_SystemFirstInOrder ==
  Sorted =>
    /\ \A i, j \in 1..Len(result) :
         (Canonical(result[i]) /\ ~HasRole(result[j])) => i < j
    /\ \A i, j \in 1..Len(result) :
         (/\ Canonical(result[i])
          /\ Canonical(result[j])
          /\ CanonicalPlace(result[i]) < CanonicalPlace(result[j])) => i < j
    /\ RolesOf(mailboxes) = <<Some(<<"t", "r", "a", "s", "h">>), Some(<<"i", "n", "b", "o", "x">>), Some(<<"a", "r", "c", "h", "i", "v", "e">>)>>
         => RolesOf(result) = <<Some(<<"i", "n", "b", "o", "x">>), Some(<<"a", "r", "c", "h", "i", "v", "e">>), Some(<<"t", "r", "a", "s", "h">>)>>

C10_Witness ==
  /\ Sorted
  /\ RolesOf(mailboxes) = <<Some(<<"t", "r", "a", "s", "h">>), Some(<<"i", "n", "b", "o", "x">>), Some(<<"a", "r", "c", "h", "i", "v", "e">>)>>
  /\ RolesOf(result) = <<Some(<<"i", "n", "b", "o", "x">>), Some(<<"a", "r", "c", "h", "i", "v", "e">>), Some(<<"t", "r", "a", "s", "h">>)>>

NonCanonical(m) == HasRole(m) /\ ~Canonical(m)

\* the name of a comes before the name of b, letters' case set aside
NameBefore(a, b) == str_lt(lower(a.name), lower(b.name))

IdsOf(ms) == [i \in 1..Len(ms) |-> ms[i].id]

SpamOrJunk(m) == HasRole(m) /\ lower(m.role[1]) \in {<<"s", "p", "a", "m">>, <<"j", "u", "n", "k">>}

HasRoleOf(m, r) == HasRole(m) /\ lower(m.role[1]) = r

\* C11: spam and junk share a rank, after archive and before trash; and the
\* mailboxes of one role rank, a spam and a junk mailbox too, are ordered
\* by name, letters' case set aside.
C11_SpamJunkSameRank ==
  Sorted =>
    \A i, j \in 1..Len(result) :
      /\ (HasRoleOf(result[i], <<"a", "r", "c", "h", "i", "v", "e">>) /\ SpamOrJunk(result[j])) => i < j
      /\ (SpamOrJunk(result[i]) /\ HasRoleOf(result[j], <<"t", "r", "a", "s", "h">>)) => i < j
      /\ (/\ Canonical(result[i])
          /\ Canonical(result[j])
          /\ CanonicalPlace(result[i]) = CanonicalPlace(result[j])
          /\ NameBefore(result[i], result[j])) => i < j

C11_Witness ==
  /\ Sorted
  /\ Len(result) = 2
  /\ mailboxes[1].role = Some(<<"s", "p", "a", "m">>)
  /\ mailboxes[1].name = <<"B">>
  /\ mailboxes[2].role = Some(<<"j", "u", "n", "k">>)
  /\ mailboxes[2].name = <<"a">>
  /\ IdsOf(result) = <<mailboxes[2].id, mailboxes[1].id>>

\* C12: the mailboxes without a role are ordered by sort_order, and for equal
\* sort_order by name, letters' case set aside; Archive2 with sort_order 1
\* comes before Projects with sort_order 2.
C12_RolelessBySortOrderThenName ==
  Sorted =>
    \A i, j \in 1..Len(result) :
      (/\ ~HasRole(result[i])
       /\ ~HasRole(result[j])
       /\ \/ result[i].sort_order < result[j].sort_order
          \/ /\ result[i].sort_order = result[j].sort_order
             /\ NameBefore(result[i], result[j])) => i < j

C12_Witness ==
  /\ Sorted
  /\ Len(result) = 2
  /\ mailboxes[1] = Mailbox(<<"m", "1">>, <<"P", "r", "o", "j", "e", "c", "t", "s">>, None, 2)
  /\ mailboxes[2] = Mailbox(<<"m", "2">>, <<"A", "r", "c", "h", "i", "v", "e", "2">>, None, 1)
  /\ result = <<mailboxes[2], mailboxes[1]>>

\* C13: a mailbox whose role is a non-empty string outside the canonical list
\* comes after every mailbox of a canonical role and before every mailbox
\* without a role; among such mailboxes the name decides, letters' case set
\* aside.
C13_OtherRoleLastOfSystem ==
  Sorted =>
    \A i, j \in 1..Len(result) :
      /\ (Canonical(result[i]) /\ NonCanonical(result[j])) => i < j
      /\ (NonCanonical(result[i]) /\ ~HasRole(result[j])) => i < j
      /\ (/\ NonCanonical(result[i])
          /\ NonCanonical(result[j])
          /\ NameBefore(result[i], result[j])) => i < j

C13_Witness ==
  /\ Sorted
  /\ Len(result) = 3
  /\ ~HasRole(mailboxes[1])
  /\ NonCanonical(mailboxes[2])
  /\ Canonical(mailboxes[3])
  /\ IdsOf(result) = <<mailboxes[3].id, mailboxes[2].id, mailboxes[1].id>>

\* the list with the roles that satisfy the test taken away
WithoutRoles(ms, Test(_)) ==
  [i \in 1..Len(ms) |-> IF Test(ms[i]) THEN [ms[i] EXCEPT !.role = None] ELSE ms[i]]

EmptyRole(m) == m.role = Some(<<>>)

\* C14 as claimed: a mailbox with a non-canonical role is ordered exactly as
\* the same mailbox with role None would be. The code breaks it: a non-empty
\* role outside the canonical list puts the mailbox before the role-less ones.
C14_UnrecognizedRoleAsAbsent ==
  Sorted =>
    IdsOf(result)
      = IdsOf(sort_mailboxes(WithoutRoles(mailboxes, LAMBDA m : m.role # None /\ ~Canonical(m))))

\* C14 as amended: only the empty role is treated as absent, such a mailbox
\* being ordered exactly as with role None; a mailbox with a non-empty
\* non-canonical role comes before every mailbox without a role, whatever
\* their sort_order.
C14_EmptyRoleAsAbsent ==
  Sorted =>
    /\ IdsOf(result) = IdsOf(sort_mailboxes(WithoutRoles(mailboxes, EmptyRole)))
    /\ \A i, j \in 1..Len(result) :
         (NonCanonical(result[i]) /\ ~HasRole(result[j])) => i < j

C14_Witness ==
  /\ Sorted
  /\ Len(result) = 2
  /\ mailboxes[1].role = Some(<<>>)
  /\ mailboxes[1].sort_order = 2
  /\ mailboxes[2].role = None
  /\ mailboxes[2].sort_order = 1
  /\ IdsOf(result) = <<mailboxes[2].id, mailboxes[1].id>>

\* C15: sorting the list returned returns the identical list, the mailboxes
\* of equal keys in the same relative order.
C15_Idempotent ==
  Sorted => sort_mailboxes(result) = result

C15_Witness ==
  /\ Sorted
  /\ Len(result) = 3
  /\ result # mailboxes
  /\ sort_key(result[1]) = sort_key(result[2])
  /\ result[1].id = <<"m", "2">>
  /\ result[2].id = <<"m", "3">>
  /\ sort_mailboxes(result) = result

\* the same mailboxes, each as often
Permutation(a, b) ==
  /\ Len(a) = Len(b)
  /\ \A x \in Range(a) \cup Range(b) :
       Cardinality({i \in 1..Len(a) : a[i] = x})
         = Cardinality({i \in 1..Len(b) : b[i] = x})

\* C16: the list returned is a permutation of the argument, no mailbox added,
\* dropped or changed, and the call leaves the argument list as it was.
C16_PermutationArgumentKept ==
  /\ [](Sorted => Permutation(result, mailboxes))
  /\ [][mailboxes' = mailboxes]_vars

C16_Witness ==
  /\ Sorted
  /\ Len(mailboxes) = 3
  /\ result # mailboxes
  /\ Permutation(result, mailboxes)

----------------------------------------------------------------------------
(* Properties of the search modal.                                         *)

Bonus(b, n) == IF b THEN n ELSE 0

\* the last event left a query that is not empty
Queried == typed # None /\ lower(strip(typed[1])) # <<>>

\* the query of the last event
LastQuery == lower(strip(typed[1]))

\* the place of an email in the list the modal was opened on
Place(e) == CHOOSE k \in 1..Len(all_emails) : all_emails[k] = e

\* C17: for a non-empty lower-cased query the score of an email is the sum of
\* 100 if the lower-cased subject contains the query and 50 more if it starts
\* with it, 80 if from_display contains it and 40 more if it starts with it,
\* 60 if from_email contains it and 30 if the preview contains it; it is 0
\* exactly when no field contains the query.
C17_ScoreIsSumOfBonuses ==
  \A k \in 1..Len(scored) :
    LET q == scored[k].query
        e == scored[k].email
        in_subject == contains(lower(e.subject), q)
        in_display == contains(lower(from_display(e)), q)
        in_email == contains(lower(from_email(e)), q)
        in_preview == contains(lower(e.preview), q)
    IN  /\ q # <<>>
        /\ q = lower(q)
        /\ scored[k].score
             = Bonus(in_subject, 100)
               + Bonus(in_subject /\ startswith(lower(e.subject), q), 50)
               + Bonus(in_display, 80)
               + Bonus(in_display /\ startswith(lower(from_display(e)), q), 40)
               + Bonus(in_email, 60)
               + Bonus(in_preview, 30)
        /\ scored[k].score = 0
             <=> ~(in_subject \/ in_display \/ in_email \/ in_preview)

C17_Witness ==
  /\ typed = Some(<<" ", "I", "n", " ">>)
  /\ Len(scored) = 2
  /\ scored[1].query = <<"i", "n">>
  /\ scored[1].email.subject = <<"i", "n">>
  /\ scored[1].score = 360
  /\ scored[2].email.subject = <<"W", "i", "n">>
  /\ scored[2].score = 100

\* C18: after an event with a non-empty query the ranked result has at most
\* 50 emails, each of them an email of the list the modal was opened on, and
\* none of them of score 0.
C18_AtMostLimitAllMatching ==
  Queried =>
    /\ Len(filtered) <= 50
    /\ \A i \in 1..Len(filtered) :
         /\ filtered[i] \in Range(all_emails)
         /\ calculate_score(LastQuery, filtered[i]) > 0

C18_Witness ==
  /\ typed = Some(<<"i", "n">>)
  /\ Len(all_emails) = 52
  /\ \A k \in 1..Len(scored) : scored[k].score > 0
  /\ Len(filtered) = 50

\* C19: the ranked result goes by score from the highest down, emails of
\* equal score in the order of the list the modal was opened on; the emails
\* cut off rank behind all those kept; and an email whose subject matches
\* comes before an email that only its preview makes a match.
C19_ByScoreStableTopKept ==
  Queried =>
    LET sc == [k \in 1..Len(all_emails) |-> calculate_score(LastQuery, all_emails[k])]
        at == [i \in 1..Len(filtered) |-> Place(filtered[i])]
        Behind(a, b) == sc[a] > sc[b] \/ (sc[a] = sc[b] /\ a < b)
    IN  /\ \A i, j \in 1..Len(filtered) : i < j => Behind(at[i], at[j])
        /\ \A k \in 1..Len(all_emails) :
             (sc[k] > 0 /\ \A i \in 1..Len(filtered) : at[i] # k)
               => /\ Len(filtered) = 50
                  /\ \A i \in 1..Len(filtered) : Behind(at[i], k)
        /\ \A i, j \in 1..Len(filtered) :
             (/\ contains(lower(filtered[i].subject), LastQuery)
              /\ sc[at[j]] = 30) => i < j

C19_Witness ==
  /\ typed = Some(<<"i", "n">>)
  /\ Len(all_emails) = 52
  /\ all_emails[1].preview = <<"l", "o", "g", " ", "i", "n">>
  /\ all_emails[2].subject = <<"W", "i", "n">>
  /\ Len(filtered) = 50
  /\ filtered[1].id = <<"e", "2">>
  /\ filtered[2].id = <<"e", "4">>
  /\ filtered[26].id = <<"e", "5", "2">>
  /\ filtered[27].id = <<"e", "1">>
  /\ filtered[50].id = <<"e", "4", "7">>

\* C20: while nothing has been typed, and after an event whose value is
\* empty or only whitespace, the scorer has not been called and the list is
\* the first 50 emails the modal was opened on, in their order; the table
\* shows them.
C20_EmptyQueryFirstEmails ==
  (typed = None \/ strip(typed[1]) = <<>>) =>
    /\ scored = <<>>
    /\ Len(filtered) = (IF Len(all_emails) < 50 THEN Len(all_emails) ELSE 50)
    /\ \A i \in 1..Len(filtered) : filtered[i] = all_emails[i]
    /\ mounted => table = [i \in 1..Len(filtered) |-> all_emails[i].id]

C20_Witness ==
  /\ typed = Some(<<" ", "\t">>)
  /\ Len(all_emails) = 52
  /\ Len(filtered) = 50
  /\ filtered[50] = all_emails[50]
  /\ Len(table) = 50
  /\ scored = <<>>

----------------------------------------------------------------------------
(* Properties of the configuration.                                        *)

\* C21: load_config(p) after save_config(c, p) returns a Config equal to c
\* in every field of the fastmail, claude, cache and ui sections.
C21_RoundTrip ==
  load_after_save =>
    /\ loaded.returned
    /\ \A sec \in Sections :
         \A key \in DOMAIN DefaultConfig[sec] : loaded.config[sec][key] = config[sec][key]

C21_Witness ==
  /\ load_after_save
  /\ config.ui.refresh_interval = V_int(60)
  /\ config.claude.enabled = V_bool(FALSE)
  /\ loaded.config.ui.refresh_interval = V_int(60)
  /\ loaded.config.claude.enabled = V_bool(FALSE)
  /\ loaded.config = config

\* C22: load_config on a path where no file is returns the default Config
\* (host api.fastmail.com, claude enabled, 500 messages cached, vim mode on,
\* refresh every 30 seconds) and leaves the path without a file.
C22_MissingFileDefaults ==
  [][(~config_file.exists /\ saved' = saved) =>
       /\ loaded'.returned
       /\ loaded'.config = DefaultConfig
       /\ loaded'.config.fastmail.host = V_str(<<"a", "p", "i", ".", "f", "a", "s", "t", "m", "a", "i", "l", ".", "c", "o", "m">>)
       /\ loaded'.config.claude.enabled = V_bool(TRUE)
       /\ loaded'.config.cache.max_messages = V_int(500)
       /\ loaded'.config.ui.vim_mode = V_bool(TRUE)
       /\ loaded'.config.ui.refresh_interval = V_int(30)
       /\ ~config_file'.exists]_vars

C22_Witness ==
  /\ loaded.returned
  /\ ~config_file.exists
  /\ config.ui.refresh_interval = V_int(60)
  /\ loaded.config.ui.refresh_interval = V_int(30)
  /\ loaded.config = DefaultConfig

----------------------------------------------------------------------------
(* Properties of the FastmailClient.                                       *)

\* C23: on a connected client get_mailboxes without force_refresh and with
\* a non-empty cache sends no request and returns the cached mailboxes
\* sorted; a call with force_refresh, or with an empty cache, asks the
\* server, and when it returns the cache holds exactly the mailboxes of the
\* answer, one per id, nothing of what was cached before left over.
C23_CacheOrFetch ==
  (outcome.op = "get_mailboxes" /\ outcome.connected) =>
    /\ outcome.status = "awaiting" =>
         /\ outcome.force_refresh \/ outcome.cache_before = <<>>
         /\ outcome.sent = 1
    /\ (outcome.status = "returned" /\ outcome.sent = 0) =>
         /\ ~outcome.force_refresh
         /\ outcome.cache_before # <<>>
         /\ outcome.value = sort_mailboxes(outcome.cache_before)
         /\ mailboxes_cache = outcome.cache_before
    /\ (outcome.status = "returned" /\ outcome.sent = 1) =>
         /\ Len(mailboxes_cache) = Len(outcome.response)
         /\ \A i, j \in 1..Len(mailboxes_cache) :
              mailboxes_cache[i].id = mailboxes_cache[j].id => i = j
         /\ \A j \in 1..Len(outcome.response) :
              \E i \in 1..Len(mailboxes_cache) :
                mailboxes_cache[i] = from_jmap(outcome.response[j])
         /\ outcome.value = sort_mailboxes(mailboxes_cache)

C23_Witness ==
  /\ outcome.op = "get_mailboxes"
  /\ outcome.status = "returned"
  /\ outcome.sent = 1
  /\ outcome.force_refresh
  /\ Len(mailboxes_cache) = 3
  /\ \E i \in 1..Len(outcome.cache_before) :
       \A j \in 1..Len(mailboxes_cache) : mailboxes_cache[j].id # outcome.cache_before[i].id

ClientOperations ==
  {"get_mailboxes", "get_emails", "get_email_by_id", "search_emails", "mark_read",
   "mark_unread", "star", "unstar", "move_to_mailbox", "move_to_trash", "archive",
   "move_to_spam", "delete_permanently", "get_thread"}

\* C24: every fetch or mutate operation called on a client that is not
\* connected raises RuntimeError('Not connected'), sends no request and
\* leaves the cache as it was.
C24_NotConnectedRaises ==
  (outcome.op \in ClientOperations /\ ~outcome.connected) =>
    /\ outcome.status = "RuntimeError: Not connected"
    /\ outcome.sent = 0
    /\ mailboxes_cache = outcome.cache_before

----------------------------------------------------------------------------
(* Properties of the mailbox tree.                                         *)

\* C25: update_mailboxes comes to its end for every list of mailboxes,
\* whatever their parent_id: the calls of _add_mailbox_node never nest
\* deeper than there are mailboxes, and the call does not end in an error.
C25_UpdateMailboxesTerminates ==
  /\ Len(tree_stack) <= Len(tree_arg)
  /\ tree_status \in {"not called", "running", "returned"}

----------------------------------------------------------------------------
(* Properties of the application.                                          *)

\* C26: whenever the email list has been updated, the emails it shows were
\* fetched for the mailbox whose name and total it shows with them.
C26_ListMatchesMailbox ==
  email_list # None => email_list[1].fetched_for = email_list[1].shown_as

\* C28: when action_back has returned after being called with the masked
\* screen current, the inbox screen is shown and _current_screen is 'inbox';
\* and whenever no handler is under way _current_screen names the screen
\* shown.
C28_BackReturnsToInbox ==
  /\ last_action = Last("action_back", "masked") =>
       (screen_shown = "inbox" /\ current_screen = "inbox")
  /\ (app_mounted /\ pump = Idle) => current_screen = screen_shown

----------------------------------------------------------------------------
(* Properties of the email list                                            *)

\* C27: after any sequence of update_emails, refresh_email, toggle_select,
\* select_all and clear_selection the selected ids are ids of listed emails;
\* update_emails leaves the selection empty; select_all selects every listed
\* email, unless all were selected already, and then it deselects all
C27_SelectionWithinList ==
  /\ selected_ids \subseteq ids_of(listed)
  /\ list_last.operation = "update_emails" => selected_ids = {}
  /\ list_last.operation = "select_all" =>
       selected_ids = IF list_last.selected = ids_of(listed)
                      THEN {}
                      ELSE ids_of(listed)

\* select_all has deselected the two emails of a list that were selected
C27_Witness ==
  /\ list_last.operation = "select_all"
  /\ Len(listed) = 2
  /\ list_last.selected = ids_of(listed)
  /\ selected_ids = {}

----------------------------------------------------------------------------
(* Properties of the setup screen                                          *)

\* the token typed, trimmed of the blanks at its ends
Trimmed(s) ==
  LET kept == {i \in DOMAIN s : s[i] # " "}
  IN  IF kept = {} THEN <<>>
      ELSE SubSeq(s, CHOOSE i \in kept : \A j \in kept : i <= j,
                     CHOOSE i \in kept : \A j \in kept : j <= i)

TokenIsFmu ==
  LET t == Trimmed(token_input)
  IN  Len(t) >= 3 /\ t[1] = "f" /\ t[2] = "m" /\ t[3] = "u"

WrittenTo(username) ==
  {i \in DOMAIN setup_last.written : setup_last.written[i].username = username}

\* C29: the keyring is written and the screen dismissed with True only for a
\* trimmed token that starts with 'fmu'; for an empty or otherwise prefixed
\* token nothing is written, an error is shown and the screen stays open; the
\* Claude key is written only when, trimmed, it is not empty
C29_SavesOnlyFmuToken ==
  /\ dismissed # None =>
       /\ dismissed = Some(TRUE)
       /\ TokenIsFmu
       /\ keyring.fastmail_token = Some(Trimmed(token_input))
  /\ setup_last.written # <<>> => TokenIsFmu
  /\ (setup_last.called /\ ~TokenIsFmu) =>
       /\ setup_last.written = <<>>
       /\ error_message # None
       /\ dismissed = None
  /\ WrittenTo("claude_api_key") # {} =>
       /\ Trimmed(claude_input) # <<>>
       /\ keyring.claude_api_key = Some(Trimmed(claude_input))

\* a token typed with a blank before it has been stored, with a Claude key,
\* after an earlier try with a token that was refused
C29_Witness ==
  /\ dismissed = Some(TRUE)
  /\ token_input = <<" ", "f", "m", "u">>
  /\ WrittenTo("claude_api_key") # {}
  /\ error_message # None

----------------------------------------------------------------------------
(* Properties of the masked email manager                                  *)

\* the toggle at place i returned, and the next one was called for the same
\* id with the state it returned
ToggledTwice(i) ==
  /\ i + 1 \in DOMAIN toggles
  /\ toggles[i].status = "returned"
  /\ toggles[i + 1].status = "returned"
  /\ toggles[i + 1].id = toggles[i].id
  /\ toggles[i + 1].current_state = toggles[i].value

\* C30: toggle(id, current_state) sends exactly one state update, for that id,
\* and returns the state it sent: 'disabled' for 'enabled' and 'enabled' for
\* every other current_state; two toggles in a row from 'enabled' or
\* 'disabled' return the state started from
C30_ToggleFlipsState ==
  \A i \in DOMAIN toggles :
    /\ Len(toggles[i].sent) = 1
    /\ toggles[i].sent[1].id = toggles[i].id
    /\ toggles[i].status = "returned" =>
         /\ toggles[i].value = toggles[i].sent[1].state
         /\ toggles[i].current_state = "enabled" => toggles[i].value = "disabled"
         /\ toggles[i].current_state # "enabled" => toggles[i].value = "enabled"
    /\ (ToggledTwice(i) /\ toggles[i].current_state \in {"enabled", "disabled"}) =>
         toggles[i + 1].value = toggles[i].current_state

\* a pending masked email has been toggled, and toggled again with the state
\* the first toggle returned
C30_Witness ==
  /\ Len(toggles) = 2
  /\ ToggledTwice(1)
  /\ toggles[1].current_state = "pending"
  /\ toggles[2].value = "disabled"

====
